---- MODULE Spec2Model ----
(***************************************************************************)
(* Work Mode (src/extension.js): the session controller and the            *)
(* incremental backup engine, as a state machine.  One action is one       *)
(* synchronous run of a handler between two awaits: the host runs a single *)
(* thread, so a handler is atomic up to its next await, and any other      *)
(* handler may run while it is suspended.                                  *)
(***************************************************************************)
EXTENDS Integers, Sequences, FiniteSets, TLC

(***************************************************************************)
(* Bounds of the model.                                                    *)
(***************************************************************************)
\* builds (calls of createIncrementalZipIfNeeded) in one behaviour
MaxBuilds == 2
\* calls of startWorkMode in one behaviour
MaxStarts == 2
\* calls of stopWorkMode in one behaviour
MaxStops == 1
\* the wall clock, in seconds, runs from 0 to MaxClock
MaxClock == 1
\* file system, editor and settings events in one behaviour
MaxEvents == 2
\* retention specification: maxItems ranges over 0..MaxRetain
MaxRetain == 3
\* stopwatch specification: Date.now() advances MaxTime times
MaxTime == 3
\* log specification: calls of the log writer in one behaviour
MaxAppends == 2

(***************************************************************************)
(* Strings are sequences of one-character strings.                         *)
(***************************************************************************)
\* the characters the model uses, in UTF-16 code unit order
Alphabet == <<"*", "-", ".", "/", "0", "1", "2", "3", "4", "5", "6", "7", "8", "9", "\\", "_", "a", "b", "c", "d", "e", "g", "h", "i", "j", "k", "l", "m", "n", "o", "p", "r", "s", "t", "u", "v", "w", "x", "z">>

CodeUnit(c) == CHOOSE i \in 1..Len(Alphabet) : Alphabet[i] = c

\* s.slice(from) with a 0-based index
SliceFrom(s, from) == SubSeq(s, from + 1, Len(s))

\* s.slice(0, -n)
DropLast(s, n) == SubSeq(s, 1, Len(s) - n)

\* s.startsWith(q)
StartsWith(s, q) == /\ Len(q) <= Len(s)
                    /\ SubSeq(s, 1, Len(q)) = q

\* s.endsWith(q)
EndsWith(s, q) == /\ Len(q) <= Len(s)
                  /\ SubSeq(s, Len(s) - Len(q) + 1, Len(s)) = q

\* s.includes(q): q occurs in s as a substring (the empty string always does)
Includes(s, q) == \E i \in 0..(Len(s) - Len(q)) : SubSeq(s, i + 1, i + Len(q)) = q

\* s.replace(/\\/g, '/')
ToPosix(s) == [i \in 1..Len(s) |-> IF s[i] = "\\" THEN "/" ELSE s[i]]

\* a < b as JavaScript compares strings: by code units, a proper prefix first
StrLess(a, b) ==
    \/ /\ Len(a) < Len(b)
       /\ SubSeq(b, 1, Len(a)) = a
    \/ \E i \in 1..Len(a) :
         /\ i <= Len(b)
         /\ SubSeq(a, 1, i - 1) = SubSeq(b, 1, i - 1)
         /\ CodeUnit(a[i]) < CodeUnit(b[i])

\* Array.prototype.sort() of a set of distinct strings
RECURSIVE SortNames(_)
SortNames(S) ==
    IF S = {} THEN <<>>
    ELSE LET least == CHOOSE x \in S : \A y \in S \ {x} : StrLess(x, y)
         IN  <<least>> \o SortNames(S \ {least})

SeqToSet(s) == {s[i] : i \in 1..Len(s)}

(***************************************************************************)
(* Exclusion filter.                                                       *)
(***************************************************************************)
quick_Mut == { <<"n","o","d","e","_","m","o","d","u","l","e","s","/">>,
               <<"d","i","s","t","/">>,
               <<".","v","s","c","o","d","e","-","w","o","r","k","-","m","o","d","e","/">> }

\* const quick = ['node_modules/', '.git/', 'dist/', '.vscode-work-mode/']
quick == { <<"n","o","d","e","_","m","o","d","u","l","e","s","/">>,
           <<".","g","i","t","/">>,
           <<"d","i","s","t","/">>,
           <<".","v","s","c","o","d","e","-","w","o","r","k","-","m","o","d","e","/">> }

StripGlobDir_Mut(glob) == DropLast(glob, 3)

\* glob.slice(0, -3).replace(/^(\*\*\/)?/, '')
StripGlobDir(glob) ==
    LET body == DropLast(glob, 3)
    IN  IF StartsWith(body, <<"*","*","/">>) THEN SliceFrom(body, 3) ELSE body

\* the callback of patterns.some(...): does one user pattern match p
GlobMatches(glob, p) ==
    IF EndsWith(glob, <<"/","*","*">>) THEN Includes(p, StripGlobDir(glob))
    ELSE IF StartsWith(glob, <<"*","*","/">>) THEN Includes(p, SliceFrom(glob, 3))
    ELSE IF StartsWith(glob, <<"*",".">>) THEN EndsWith(p, SliceFrom(glob, 1))
    ELSE FALSE

\* shouldExclude(relPath), with the configured backup.excludes as patterns
shouldExclude(relPath, patterns) ==
    LET p == ToPosix(relPath)
    IN  \/ \E q \in quick : Includes(p, q)
        \/ \E i \in 1..Len(patterns) : GlobMatches(patterns[i], p)

(***************************************************************************)
(* The workspace of the model: two files, one file-backed document and one *)
(* untitled document.                                                      *)
(***************************************************************************)
PathA == <<"a", ".", "t", "s">>
PathB == <<"b", ".", "j", "s">>
Paths == {PathA, PathB}
\* a file of the repository's .git directory, which does not exist at first
PathGit == <<".", "g", "i", "t", "/", "i", "n", "d", "e", "x">>
AllPaths == Paths \cup {PathGit}

\* the values of backup.excludes the user switches between
NoExcludes == <<>>
TsExcluded == << <<"*", ".", "t", "s">> >>
ExcludeChoices == {NoExcludes, TsExcluded}

\* the values of backup.maxItems
MaxItemsChoices == {1}

\* open documents: docA is backed by the file PathA, docU is an untitled buffer
DocIds == {"docA", "docU"}
\* the documents of the final-build specification: docOut and docDots as well
FinalDocIds == {"docA", "docU", "docOut", "docDots"}
\* the documents of the function specification: docOut lies beside the workspace
\* folder, docDots and docDist inside it, docNoName is an untitled buffer without a
\* name, docSettings is the user settings file (scheme vscode-userdata)
AllDocOrder == <<"docA", "docU", "docOut", "docDots", "docDist", "docNoName", "docSettings">>
\* doc.uri.scheme
DocScheme(d) ==
    IF d \in {"docA", "docOut", "docDots", "docDist"} THEN "file"
    ELSE IF d = "docSettings" THEN "vscode-userdata"
    ELSE "untitled"
\* whether the file of a file-backed document lies inside the workspace folder
DocInside(d) == d \in {"docA", "docDots", "docDist"}
\* path.relative(ws.uri.fsPath, doc.uri.fsPath) of a file-backed document
DocRel(d) ==
    IF d = "docOut" THEN <<".", ".", "/", "x", ".", "t", "s">>
    ELSE IF d = "docDots" THEN <<".", ".", "n", ".", "t", "s">>
    ELSE IF d = "docDist" THEN <<"d", "i", "s", "t", "\\", "b", ".", "j", "s">>
    ELSE PathA
\* doc.fileName of an untitled document
DocFileName(d) ==
    IF d = "docNoName" THEN <<>>
    ELSE <<"U", "n", "t", "i", "t", "l", "e", "d", "-", "1">>
\* doc.getText(): the in-memory text, which differs from every on-disk content
DocText(d) == "mem"

\* what a path holds on disk: nothing, a directory, or a file with a content
DiskStates == {"none", "dir", "old", "mem"}
IsFileContent(c) == c \in {"old", "mem"}

UntitledDefault == <<"u", "n", "t", "i", "t", "l", "e", "d", ".", "t", "x", "t">>

\* s.split(/[\\/]/).pop(): the text after the last slash or backslash
RECURSIVE LastSegment(_)
LastSegment(s) ==
    IF \E i \in 1..Len(s) : s[i] \in {"/", "\\"}
    THEN LastSegment(SliceFrom(s, CHOOSE i \in 1..Len(s) : s[i] \in {"/", "\\"}))
    ELSE s

\* `UNSAVED/${name}` with name = (doc.fileName || 'untitled.txt').split(/[\\/]/).pop() || 'untitled.txt'
UnsavedPath(fileName) ==
    LET full == IF fileName = <<>> THEN UntitledDefault ELSE fileName
        last == LastSegment(full)
        name == IF last = <<>> THEN UntitledDefault ELSE last
    IN  <<"U", "N", "S", "A", "V", "E", "D", "/">> \o name

(***************************************************************************)
(* State.                                                                  *)
(***************************************************************************)
VARIABLES
    ws,             \* vscode.workspace.workspaceFolders?.[0] is defined
    cfgMinimalUI,   \* work-mode.enableMinimalUI
    cfgExcludes,    \* work-mode.backup.excludes
    cfgMaxItems,    \* work-mode.backup.maxItems
    now,            \* the wall clock, in seconds
    utcOffset,      \* what the local time zone adds to the clock, in seconds
    disk,           \* what each workspace path holds on disk
    docs,           \* vscode.workspace.textDocuments: open and dirty flags
    events,         \* the number of file system, editor and settings events so far
    running,        \* let running
    paused,         \* let paused
    backupTimer,    \* let backupTimer: the handle (0: undefined)
    liveTimers,     \* the backup intervals the host still fires
    backupWatcher,  \* let backupWatcher: the handle (0: undefined)
    liveWatchers,   \* the file system watchers not yet disposed
    disposables,    \* let disposables: the live document-change subscriptions
    backupTouched,  \* let backupTouched: the ChangeSet
    backupsDir,     \* .vscode-work-mode/backups exists
    archives,       \* the archive files of the backups directory, by name
    logsDir,        \* .vscode-work-mode/logs exists
    backupsLog,     \* the lines of logs/backups.jsonl
    sessionsLog,    \* the lines of logs/sessions.jsonl
    builds,         \* the calls of createIncrementalZipIfNeeded
    starts,         \* the calls of startWorkMode
    stops,          \* the calls of stopWorkMode
    unread,         \* history: paths that entered the ChangeSet and no build has read yet
    archivedDocs,   \* history: documents archived in this session and not edited since that build began
    retDir,         \* retention specification: the entries of the directory dirUri
    retMax,         \* retention specification: maxItems
    retZips,        \* retention specification: const zips
    retPc,          \* retention specification: position in enforceBackupLimit
    retDir0,        \* history: the directory when enforceBackupLimit was called
    retDeleted,     \* history: the names deleted, in order
    startMs,        \* stopwatch: Date.now() at initStopwatch
    pausedAccum,    \* stopwatch: the time of the finished pauses
    pauseStartMs,   \* stopwatch: Date.now() at the running pause, or 0
    pausedTotal,    \* history: the time the session has spent paused
    jsonl,          \* log specification: the bytes of each log file, or "missing"
    appends,        \* log specification: the calls of appendBackupLog / appendSessionLog
    logFlaky,       \* the environment: whether the I/O of the logs directory can fail
    zipFlaky,       \* the environment: whether zip.addFile can throw
    zipAppends,     \* the environment: <<TRUE>> when the installed adm-zip appends an entry of an existing
                    \* name, <<FALSE>> when it replaces the data; <<>> until a build can meet such a name
    fnPc,           \* function specification: which function is applied, and whether it has been
    fnArg,          \* function specification: the arguments
    fnResult        \* function specification: the value returned

envVars == <<ws, cfgMinimalUI, cfgExcludes, cfgMaxItems, now, utcOffset, disk, docs, events>>
sessionVars == <<running, paused, backupTimer, liveTimers, backupWatcher, liveWatchers, disposables>>
fsVars == <<backupsDir, archives, logsDir, backupsLog, sessionsLog>>
procVars == <<builds, starts, stops>>
histVars == <<unread, archivedDocs>>
retVars == <<retDir, retMax, retZips, retPc, retDir0, retDeleted>>
swVars == <<startMs, pausedAccum, pauseStartMs, pausedTotal>>
logVars == <<jsonl, appends, logFlaky, zipFlaky, zipAppends>>
fnVars == <<fnPc, fnArg, fnResult>>
vars == <<envVars, sessionVars, backupTouched, fsVars, procVars, histVars, retVars, swVars, logVars, fnVars>>

\* Date.now(): the clock, which is never 0
DateNow == now + 1

\* new Date() read through getHours(), getMinutes(), getSeconds(): the local time
LocalTime == now + utcOffset

\* the zone's offset after one more second: as it was, or two seconds less when
\* daylight saving time ends at that second and the local clocks are put back
OffsetsAfter(off) == IF off >= 2 THEN {off, off - 2} ELSE {off}

BuildIds == 1..MaxBuilds
StartIds == 1..MaxStarts
StopIds == 1..MaxStops

(***************************************************************************)
(* Archives: an AdmZip instance is its list of entries.                    *)
(***************************************************************************)
ZipNames(zip) == {zip[i].entryName : i \in 1..Len(zip)}

\* zip.addFile(entryName, data): adm-zip appends a new entry; the versions that
\* look the name up first set the data of the entry of that name when there is one
addFile(zip, entryName, data) ==
    IF zipAppends = <<FALSE>> /\ \E i \in 1..Len(zip) : zip[i].entryName = entryName
    THEN [i \in 1..Len(zip) |->
            IF zip[i].entryName = entryName THEN [zip[i] EXCEPT !.data = data] ELSE zip[i]]
    ELSE Append(zip, [entryName |-> entryName, data |-> data])

\* the data of the entries of that name
ZipData(zip, entryName) == {zip[i].data : i \in {j \in 1..Len(zip) : zip[j].entryName = entryName}}

\* localStamp() at local time t: the digits of the local date and time, at a
\* fixed width (one digit here)
localStamp(t) == <<SubSeq(<<"0", "1", "2", "3", "4", "5", "6", "7", "8", "9">>, t + 1, t + 1)[1]>>

\* `${localStamp()}-changed.zip`
ZipNameAt(t) == localStamp(t) \o <<"-", "c", "h", "a", "n", "g", "e", "d", ".", "z", "i", "p">>

(***************************************************************************)
(* Retention manager: the pure part of enforceBackupLimit.                 *)
(***************************************************************************)
\* entries.filter(([n, t]) => t === FileType.File && n.endsWith('.zip')).map(([n]) => n).sort()
ZipList(entries) ==
    SortNames({e.name : e \in {x \in entries : x.type = "file" /\ EndsWith(x.name, <<".", "z", "i", "p">>)}})

OverLimit_Mut(n, maxItems) == n >= maxItems

\* while (zips.length > maxItems)
OverLimit(n, maxItems) == n > maxItems

\* the names the loop shifts off the front of zips, in order
RECURSIVE Doomed(_, _)
Doomed(zips, maxItems) ==
    IF OverLimit(Len(zips), maxItems)
    THEN <<Head(zips)>> \o Doomed(Tail(zips), maxItems)
    ELSE <<>>

\* vscode.workspace.fs.readDirectory(backupsDir) in the session model
BackupEntries == {[name |-> n, type |-> "file"] : n \in DOMAIN archives}

(***************************************************************************)
(* Change tracker and unsaved content collector.                           *)
(***************************************************************************)
\* markChanged(uri) and the onDidChangeTextDocument listener: the ChangeSet after
\* an event on the workspace-relative path rel
Marked(touched, rel, excludes) ==
    IF StartsWith(rel, <<".", ".">>) \/ shouldExclude(rel, excludes)
    THEN touched
    ELSE touched \cup {ToPosix(rel)}

ReadChangeSet_Mut(touched) == {}

\* const fromDisk = Array.from(backupTouched)
ReadChangeSet(touched) == touched

IsCandidate_Mut(d, docState) == docState[d].open

\* the negation of: if (!doc.isDirty && doc.uri.scheme !== 'untitled') continue
IsCandidate(d, docState) ==
    /\ docState[d].open
    /\ (docState[d].isDirty \/ DocScheme(d) = "untitled")

\* the unsaved entries one document contributes
UnsavedOf(d, docState, excludes) ==
    IF ~IsCandidate(d, docState) THEN <<>>
    ELSE IF DocScheme(d) = "file"
         THEN LET rel == ToPosix(DocRel(d))
              IN  IF StartsWith(rel, <<".", ".">>) \/ shouldExclude(rel, excludes)
                  THEN <<>>
                  ELSE << [zipPath |-> rel, content |-> DocText(d)] >>
         ELSE IF DocScheme(d) = "untitled"
         THEN << [zipPath |-> UnsavedPath(DocFileName(d)), content |-> DocText(d)] >>
         ELSE <<>>

\* for (const doc of vscode.workspace.textDocuments) ...: unsavedEntries
RECURSIVE CollectUnsaved(_, _, _)
CollectUnsaved(order, docState, excludes) ==
    IF order = <<>> THEN <<>>
    ELSE UnsavedOf(Head(order), docState, excludes) \o CollectUnsaved(Tail(order), docState, excludes)

AddUnsaved_Mut(zip, entries) == zip

\* for (const entry of unsavedEntries) zip.addFile(entry.zipPath, entry.content)
RECURSIVE AddUnsaved(_, _)
AddUnsaved(zip, entries) ==
    IF entries = <<>> THEN zip
    ELSE AddUnsaved(addFile(zip, Head(entries).zipPath, Head(entries).content), Tail(entries))

IsNothingToSave_Mut(fromDisk, unsavedEntries) == FALSE

\* if (fromDisk.length === 0 && unsavedEntries.length === 0) return
IsNothingToSave(fromDisk, unsavedEntries) == fromDisk = {} /\ unsavedEntries = <<>>

IsEmptyZip_Mut(zip) == FALSE

\* if (zip.getEntries().length === 0) return
IsEmptyZip(zip) == Len(zip) = 0

\* the archive entry a document shows up as: its path, or UNSAVED/<name>
EntryOfDoc(d) == IF DocScheme(d) = "file" THEN ToPosix(DocRel(d)) ELSE UnsavedPath(DocFileName(d))

(***************************************************************************)
(* Calls in flight.  A call is a record; pc is the await it is suspended   *)
(* at.  Fields of a build below "outcome" are history: what the build met. *)
(***************************************************************************)
IdleBuild ==
    [pc |-> "idle", trigger |-> "none", stop |-> 0,
     fromDisk |-> {}, todo |-> {}, rel |-> <<>>, unsaved |-> <<>>,
     zip |-> <<>>, zipName |-> <<>>, zips |-> <<>>, oldest |-> <<>>, prev |-> <<>>,
     outcome |-> "none",
     skipped |-> {}, unreadable |-> {}, addFailed |-> {}, diskRead |-> {}, dirtyDocs |-> {}, eligible |-> {},
     unedited |-> {}, stale |-> {}]

\* prev is the content appendJsonlLine has read
IdleStart == [pc |-> "idle", prev |-> <<>>]

\* pc: build (awaiting the final build), clear (awaiting a final build that returned
\* at once), ui (awaiting disableMinimalUI), log, logread, logwrite (in
\* appendSessionLog), done, failed.  durationMs is the argument of
\* appendSessionLog; netElapsed0, requestedAt and waited are history: the
\* session's time net of pauses and the clock when stop
\* was requested, and the time stop spent in its awaits before the record was made
IdleStop ==
    [pc |-> "idle", build |-> 0, touched0 |-> {}, prev |-> <<>>,
     durationMs |-> 0, netElapsed0 |-> 0, requestedAt |-> 0, waited |-> 0]

InFlight(rec) == rec.pc \notin {"idle", "done"}

\* the build has written its archive file
Wrote(rec) == rec.pc \in {"enforce", "delete", "log", "logread", "logwrite"} \/ rec.outcome = "saved"

\* the slot the next call takes
FreeBuild == CHOOSE b \in BuildIds : builds[b].pc = "idle" /\ \A c \in BuildIds : builds[c].pc = "idle" => b <= c
FreeStart == CHOOSE i \in StartIds : starts[i].pc = "idle" /\ \A j \in StartIds : starts[j].pc = "idle" => i <= j
FreeStop == CHOOSE s \in StopIds : stops[s].pc = "idle" /\ \A t \in StopIds : stops[t].pc = "idle" => s <= t

\* vscode.workspace.textDocuments, in the order the host gives them
OpenOrder(docState) == SelectSeq(AllDocOrder, LAMBDA d : d \in DOMAIN docState)

\* the documents that are dirty or untitled
DirtyOrUntitled(docState) == {d \in DOMAIN docState : docState[d].open /\ (docState[d].isDirty \/ DocScheme(d) = "untitled")}

\* history: the dirty or untitled documents that are untitled, or lie inside the
\* workspace and match no exclusion
Eligible(docState, excludes) ==
    {d \in DirtyOrUntitled(docState) :
        \/ DocScheme(d) = "untitled"
        \/ ~(\/ SubSeq(DocRel(d), 1, 2) = <<".", ".">>
             \/ \E q \in quick : Includes(ToPosix(DocRel(d)), q)
             \/ \E i \in 1..Len(excludes) : GlobMatches(excludes[i], ToPosix(DocRel(d))))}

\* a call that has returned keeps its history and drops its locals
Done(rec, out) ==
    [rec EXCEPT !.pc = "done", !.outcome = out, !.todo = {}, !.rel = <<>>,
                !.zips = <<>>, !.oldest = <<>>, !.prev = <<>>, !.unedited = {},
                !.stale = IF out = "saved" THEN @ ELSE {}]

(***************************************************************************)
(* createIncrementalZipIfNeeded up to its first await.                     *)
(***************************************************************************)
NewBuild(trigger, stopId) ==
    LET base == [IdleBuild EXCEPT !.trigger = trigger, !.stop = stopId]
    IN  IF ~ws THEN Done(base, "nows")
        ELSE LET fromDisk == ReadChangeSet(backupTouched)
                 unsavedEntries == CollectUnsaved(OpenOrder(docs), docs, cfgExcludes)
                 read == [base EXCEPT !.fromDisk = fromDisk, !.unsaved = unsavedEntries,
                                      !.dirtyDocs = DirtyOrUntitled(docs),
                                      !.eligible = Eligible(docs, cfgExcludes),
                                      !.unedited = DirtyOrUntitled(docs),
                                      !.stale = archivedDocs \cap DirtyOrUntitled(docs)]
             IN  IF IsNothingToSave(fromDisk, unsavedEntries)
                 THEN Done(read, "noop")
                 ELSE [read EXCEPT !.pc = "mkdir", !.todo = fromDisk]

\* history: document d was edited, saved, opened or closed
Edited(bs, d) ==
    [b \in BuildIds |-> IF InFlight(bs[b])
                        THEN [bs[b] EXCEPT !.unedited = @ \ {d}, !.stale = @ \ {d}]
                        ELSE bs[b]]

\* history: paths that newly entered the ChangeSet
Unread(touched2) == unread \cup (touched2 \ backupTouched)

(***************************************************************************)
(* The environment: the clock, the file system, the editor, the settings.  *)
(***************************************************************************)
Tick ==
    /\ now < MaxClock
    /\ events < MaxEvents
    /\ events' = events + 1
    /\ now' = now + 1
    /\ utcOffset' \in OffsetsAfter(utcOffset)
    /\ pausedTotal' = IF running /\ paused THEN pausedTotal + 1 ELSE pausedTotal
    /\ UNCHANGED <<ws, cfgMinimalUI, cfgExcludes, cfgMaxItems, disk, docs>>
    /\ UNCHANGED <<startMs, pausedAccum, pauseStartMs>>
    /\ UNCHANGED <<sessionVars, backupTouched, fsVars, procVars, histVars, retVars, logVars, fnVars>>

ConfigChange ==
    /\ events < MaxEvents
    /\ events' = events + 1
    /\ \E e \in ExcludeChoices \ {cfgExcludes} : cfgExcludes' = e
    /\ UNCHANGED <<ws, cfgMinimalUI, cfgMaxItems, now, utcOffset, disk, docs>>
    /\ UNCHANGED <<sessionVars, backupTouched, fsVars, procVars, histVars, retVars, swVars, logVars, fnVars>>

\* a file is created or modified outside the editor: backupWatcher.onDidChange / onDidCreate
ExternalWrite(p) ==
    /\ events < MaxEvents
    /\ events' = events + 1
    /\ ws
    /\ disk[p] # "dir"
    /\ disk' = [disk EXCEPT ![p] = "old"]
    /\ backupTouched' = IF liveWatchers # {} THEN Marked(backupTouched, p, cfgExcludes) ELSE backupTouched
    /\ unread' = Unread(backupTouched')
    /\ UNCHANGED <<ws, cfgMinimalUI, cfgExcludes, cfgMaxItems, now, utcOffset, docs>>
    /\ UNCHANGED <<sessionVars, fsVars, procVars, archivedDocs, retVars, swVars, logVars, fnVars>>

\* a directory is created at the path: backupWatcher.onDidCreate
ExternalMkdir(p) ==
    /\ events < MaxEvents
    /\ events' = events + 1
    /\ ws
    /\ p = PathB
    /\ disk[p] = "none"
    /\ disk' = [disk EXCEPT ![p] = "dir"]
    /\ backupTouched' = IF liveWatchers # {} THEN Marked(backupTouched, p, cfgExcludes) ELSE backupTouched
    /\ unread' = Unread(backupTouched')
    /\ UNCHANGED <<ws, cfgMinimalUI, cfgExcludes, cfgMaxItems, now, utcOffset, docs>>
    /\ UNCHANGED <<sessionVars, fsVars, procVars, archivedDocs, retVars, swVars, logVars, fnVars>>

\* a file or directory is deleted: the watcher has no delete listener
ExternalDelete(p) ==
    /\ events < MaxEvents
    /\ events' = events + 1
    /\ ws
    /\ disk[p] # "none"
    /\ disk' = [disk EXCEPT ![p] = "none"]
    /\ UNCHANGED <<ws, cfgMinimalUI, cfgExcludes, cfgMaxItems, now, utcOffset, docs>>
    /\ UNCHANGED <<sessionVars, backupTouched, fsVars, procVars, histVars, retVars, swVars, logVars, fnVars>>

\* the user types in a file-backed document: onDidChangeTextDocument
EditDoc(d) ==
    /\ events < MaxEvents
    /\ events' = events + 1
    /\ ws
    /\ DocScheme(d) = "file"
    /\ docs[d].open
    /\ docs' = [docs EXCEPT ![d].isDirty = TRUE]
    /\ backupTouched' = IF disposables # {} THEN Marked(backupTouched, DocRel(d), cfgExcludes) ELSE backupTouched
    /\ unread' = Unread(backupTouched')
    /\ archivedDocs' = archivedDocs \ {d}
    /\ builds' = Edited(builds, d)
    /\ UNCHANGED <<ws, cfgMinimalUI, cfgExcludes, cfgMaxItems, now, utcOffset, disk>>
    /\ UNCHANGED <<sessionVars, fsVars, starts, stops, retVars, swVars, logVars, fnVars>>

\* the user saves a dirty document: the file changes (backupWatcher.onDidChange)
\* and the document's dirty state changes (onDidChangeTextDocument)
SaveDoc(d) ==
    /\ events < MaxEvents
    /\ events' = events + 1
    /\ ws
    /\ DocScheme(d) = "file"
    /\ docs[d].open /\ docs[d].isDirty
    /\ disk[DocRel(d)] # "dir"
    /\ docs' = [docs EXCEPT ![d].isDirty = FALSE]
    /\ disk' = [disk EXCEPT ![DocRel(d)] = DocText(d)]
    /\ backupTouched' = IF liveWatchers # {} \/ disposables # {}
                        THEN Marked(backupTouched, DocRel(d), cfgExcludes) ELSE backupTouched
    /\ unread' = Unread(backupTouched')
    /\ archivedDocs' = archivedDocs \ {d}
    /\ builds' = Edited(builds, d)
    /\ UNCHANGED <<ws, cfgMinimalUI, cfgExcludes, cfgMaxItems, now, utcOffset>>
    /\ UNCHANGED <<sessionVars, fsVars, starts, stops, retVars, swVars, logVars, fnVars>>

\* the user opens a new untitled buffer and types in it
OpenUntitled(d) ==
    /\ events < MaxEvents
    /\ events' = events + 1
    /\ DocScheme(d) = "untitled"
    /\ ~docs[d].open
    /\ docs' = [docs EXCEPT ![d] = [open |-> TRUE, isDirty |-> TRUE]]
    /\ archivedDocs' = archivedDocs \ {d}
    /\ builds' = Edited(builds, d)
    /\ UNCHANGED <<ws, cfgMinimalUI, cfgExcludes, cfgMaxItems, now, utcOffset, disk>>
    /\ UNCHANGED <<sessionVars, backupTouched, fsVars, starts, stops, unread, retVars, swVars, logVars, fnVars>>

\* the user closes the untitled buffer without saving
CloseUntitled(d) ==
    /\ events < MaxEvents
    /\ events' = events + 1
    /\ DocScheme(d) = "untitled"
    /\ docs[d].open
    /\ docs' = [docs EXCEPT ![d] = [open |-> FALSE, isDirty |-> FALSE]]
    /\ archivedDocs' = archivedDocs \ {d}
    /\ builds' = Edited(builds, d)
    /\ UNCHANGED <<ws, cfgMinimalUI, cfgExcludes, cfgMaxItems, now, utcOffset, disk>>
    /\ UNCHANGED <<sessionVars, backupTouched, fsVars, starts, stops, unread, retVars, swVars, logVars, fnVars>>

(***************************************************************************)
(* createIncrementalZipIfNeeded after its first await, one action per      *)
(* await that completes.                                                   *)
(***************************************************************************)
\* the build stays suspended, at the await rec.pc names
Stay(b, rec) ==
    /\ builds' = [builds EXCEPT ![b] = rec]
    /\ UNCHANGED <<stops, backupTouched, unread>>

ClearedBySave_Mut(touched) == touched

\* backupTouched.clear() at the end of a build that saved an archive
ClearedBySave(touched) == {}

\* the build returns; stopIncrementalBackups, when it awaited this build, goes on
\* to backupTouched.clear() and stopWorkMode to disableMinimalUI
Returned(b, rec, out) ==
    /\ builds' = [builds EXCEPT ![b] = Done(rec, out)]
    /\ stops' = IF rec.trigger = "stop" THEN [stops EXCEPT ![rec.stop].pc = "ui"] ELSE stops
    /\ backupTouched' = IF rec.trigger = "stop" THEN {}
                        ELSE IF out = "saved" THEN ClearedBySave(backupTouched)
                        ELSE backupTouched
    /\ unread' = unread \cap backupTouched'

KeptOnThrow_Mut(touched) == {}

\* a build that throws does not reach backupTouched.clear()
KeptOnThrow(touched) == touched

\* the build throws: the rejection passes through stopIncrementalBackups and
\* stopWorkMode, which run none of their remaining statements
Threw(b, rec, out) ==
    /\ builds' = [builds EXCEPT ![b] = Done(rec, out)]
    /\ stops' = IF rec.trigger = "stop" THEN [stops EXCEPT ![rec.stop].pc = "failed"] ELSE stops
    /\ backupTouched' = KeptOnThrow(backupTouched)
    /\ unread' = unread \cap backupTouched'

\* after the for loop: if (zip.getEntries().length === 0) return; else writeFile
AfterLoop(b, rec) ==
    IF IsEmptyZip(rec.zip) THEN Returned(b, rec, "empty")
    ELSE Stay(b, [rec EXCEPT !.pc = "write"])

\* continue: the next path of fromDisk, or the end of the loop
Continue(b, rec) ==
    IF rec.todo = {} THEN AfterLoop(b, [rec EXCEPT !.rel = <<>>])
    ELSE Stay(b, [rec EXCEPT !.pc = "stat", !.rel = <<>>])

\* the unsaved entries whose zip.addFile did not throw: try { zip.addFile(...) } catch {}
RECURSIVE Added(_, _)
Added(entries, thrown) ==
    IF entries = <<>> THEN <<>>
    ELSE Added(SubSeq(entries, 1, Len(entries) - 1), thrown)
            \o (IF Len(entries) \in thrown THEN <<>> ELSE <<entries[Len(entries)]>>)

FileFailure_Mut == "thrown"

\* the try { ... } catch {} around one pass of the fromDisk loop, and stat(abs).catch(() => null)
FileFailure == "swallowed"

\* const zip = new AdmZip(): which adm-zip is installed shows only when a name
\* repeats in an archive, and is settled when a build makes the first archive
\* in which one of its tracked paths is also the path of an unsaved entry
Release(rec) ==
    IF zipAppends = <<>> /\ \E i \in 1..Len(rec.unsaved) : rec.unsaved[i].zipPath \in rec.fromDisk
    THEN {<<TRUE>>, <<FALSE>>}
    ELSE {zipAppends}

\* await vscode.workspace.fs.createDirectory(backupsDir), then the archive name
\* and the unsaved entries
BuildMkdir(b) ==
    /\ builds[b].pc = "mkdir"
    /\ \E ok \in BOOLEAN : \E thrown \in SUBSET (1..Len(builds[b].unsaved)) :
         /\ thrown # {} => ok /\ zipFlaky
         /\ IF ok
            THEN /\ backupsDir' = TRUE
                 /\ zipAppends' \in Release(builds[b])
                 /\ Continue(b, [builds[b] EXCEPT
                        !.zipName = ZipNameAt(LocalTime),
                        !.zip = AddUnsaved(<<>>, Added(builds[b].unsaved, thrown)),
                        !.addFailed = {builds[b].unsaved[i].zipPath : i \in thrown}])
            ELSE /\ backupsDir' = backupsDir
                 /\ zipAppends' = zipAppends
                 /\ Threw(b, builds[b], "mkdir_failed")
    /\ UNCHANGED <<envVars, sessionVars, archives, logsDir, backupsLog, sessionsLog, starts, archivedDocs, retVars, swVars, jsonl, appends, logFlaky, zipFlaky, fnVars>>

\* a pass of the for loop gives up on its path: continue, or the catch {} of the pass
GiveUp(b, rec, field) ==
    IF FileFailure = "swallowed"
    THEN Continue(b, [rec EXCEPT ![field] = @ \cup {rec.rel}])
    ELSE Threw(b, rec, "file_failed")

\* one pass of the for loop up to its second await: await stat(abs) has completed,
\* then the two skip tests and the call of readFile
BuildStat(b) ==
    /\ builds[b].pc = "stat"
    /\ \E rel \in builds[b].todo : \E ok \in BOOLEAN :
         LET rec == [builds[b] EXCEPT !.todo = @ \ {rel}, !.rel = rel]
         IN  IF ~IsFileContent(disk[rel]) \/ shouldExclude(rel, cfgExcludes)
             THEN Continue(b, [rec EXCEPT !.skipped = @ \cup {rel}])
             ELSE IF ~ok THEN GiveUp(b, rec, "unreadable")
             ELSE Stay(b, [rec EXCEPT !.pc = "read"])
    /\ UNCHANGED <<envVars, sessionVars, fsVars, starts, archivedDocs, retVars, swVars, logVars, fnVars>>

\* the rest of the pass: await readFile(abs) has completed with the bytes the file
\* holds now and zip.addFile has taken them, or one of the two has thrown into the
\* catch {} of the pass
BuildRead(b) ==
    /\ builds[b].pc = "read"
    /\ \E ok \in BOOLEAN :
         LET rec == builds[b]
         IN  IF ok /\ IsFileContent(disk[rec.rel])
             THEN Continue(b, [rec EXCEPT !.zip = addFile(@, ToPosix(rec.rel), disk[rec.rel]),
                                          !.diskRead = @ \cup {<<rec.rel, disk[rec.rel]>>}])
             ELSE GiveUp(b, rec, "unreadable")
    /\ UNCHANGED <<envVars, sessionVars, fsVars, starts, archivedDocs, retVars, swVars, logVars, fnVars>>

\* history: the documents whose unsaved entry zip.addFile put into the archive the
\* build writes and that nobody edited while the build ran
ArchivedUnedited(rec) ==
    {d \in rec.unedited :
        /\ \E i \in 1..Len(rec.unsaved) : rec.unsaved[i].zipPath = EntryOfDoc(d)
        /\ EntryOfDoc(d) \notin rec.addFailed}

\* await fs.promises.writeFile(zipPath.fsPath, zip.toBuffer()), then the call of
\* enforceBackupLimit up to await readDirectory
BuildWrite(b) ==
    /\ builds[b].pc = "write"
    /\ \E ok \in BOOLEAN :
         IF ok
         THEN /\ archives' = [n \in DOMAIN archives \cup {builds[b].zipName} |->
                                IF n = builds[b].zipName THEN builds[b].zip ELSE archives[n]]
              /\ archivedDocs' = archivedDocs \cup ArchivedUnedited(builds[b])
              /\ Stay(b, [builds[b] EXCEPT !.pc = "enforce"])
         ELSE /\ UNCHANGED <<archives, archivedDocs>>
              /\ Threw(b, builds[b], "write_failed")
    /\ UNCHANGED <<envVars, sessionVars, backupsDir, logsDir, backupsLog, sessionsLog, starts, retVars, swVars, logVars, fnVars>>

EnforceFailure_Mut == "thrown"

\* enforceBackupLimit: try { ... } catch {}
EnforceFailure == "swallowed"

\* enforceBackupLimit returns, or its catch {} has swallowed a failure: the build
\* calls appendBackupLog, which awaits createDirectory(logsDir)
EnforceEnds(b, rec, ok) ==
    IF ok \/ EnforceFailure = "swallowed"
    THEN Stay(b, [rec EXCEPT !.pc = "log", !.zips = <<>>, !.oldest = <<>>])
    ELSE Threw(b, rec, "enforce_failed")

\* while (zips.length > maxItems) { const oldest = zips.shift(); await delete(oldest) }
EnforceLoop(b, rec) ==
    IF OverLimit(Len(rec.zips), cfgMaxItems)
    THEN Stay(b, [rec EXCEPT !.pc = "delete", !.oldest = Head(rec.zips), !.zips = Tail(rec.zips)])
    ELSE EnforceEnds(b, rec, TRUE)

\* enforceBackupLimit: await readDirectory(dirUri) has completed, then the sorted
\* list of archive names and the loop up to its first await
BuildEnforce(b) ==
    /\ builds[b].pc = "enforce"
    /\ \E ok \in BOOLEAN :
         IF ok THEN EnforceLoop(b, [builds[b] EXCEPT !.zips = ZipList(BackupEntries)])
         ELSE EnforceEnds(b, builds[b], FALSE)
    /\ UNCHANGED <<envVars, sessionVars, fsVars, starts, archivedDocs, retVars, swVars, logVars, fnVars>>

\* enforceBackupLimit: await delete(oldest) has completed, and the loop goes on, or
\* it has thrown (as it does when the file is no longer there) and the call ends
BuildDelete(b) ==
    /\ builds[b].pc = "delete"
    /\ \E ok \in BOOLEAN :
         IF ok /\ builds[b].oldest \in DOMAIN archives
         THEN /\ archives' = [n \in DOMAIN archives \ {builds[b].oldest} |-> archives[n]]
              /\ EnforceLoop(b, builds[b])
         ELSE /\ UNCHANGED archives
              /\ EnforceEnds(b, builds[b], FALSE)
    /\ UNCHANGED <<envVars, sessionVars, backupsDir, logsDir, backupsLog, sessionsLog, starts, archivedDocs, retVars, swVars, logVars, fnVars>>

LogFailure_Mut == "thrown"

\* appendBackupLog and appendSessionLog: try { ... } catch {}
LogFailure == "swallowed"

\* await createDirectory(logsDir) of the log writer: the directory is there
\* afterwards, or the call has thrown
LogDirMade(ok) ==
    /\ ~ok => logFlaky
    /\ logsDir' = (logsDir \/ ok)

\* appendJsonlLine: let prev = new Uint8Array(); try { prev = await readFile(fileUri) } catch {}
\* (a file that is missing reads as empty, as does one whose read fails)
LogRead(ok, file) == IF ok THEN file ELSE <<>>

\* appendJsonlLine: await writeFile(fileUri, prev followed by the line)
LogWrite(ok, file, prev, record) == IF ok THEN Append(prev, record) ELSE file

\* appendBackupLog has returned; then the status bar message and backupTouched.clear()
LogEnds(b, rec, ok) ==
    IF ok \/ LogFailure = "swallowed"
    THEN Returned(b, rec, "saved")
    ELSE Threw(b, rec, "log_failed")

\* appendBackupLog(ws.uri, zipName, entries): await createDirectory(logsDir) has completed
BuildLog(b) ==
    /\ builds[b].pc = "log"
    /\ \E ok \in BOOLEAN :
         /\ LogDirMade(ok)
         /\ IF ok THEN Stay(b, [builds[b] EXCEPT !.pc = "logread"])
            ELSE LogEnds(b, builds[b], FALSE)
    /\ UNCHANGED <<envVars, sessionVars, backupsDir, archives, backupsLog, sessionsLog, starts, archivedDocs, retVars, swVars, logVars, fnVars>>

\* appendJsonlLine on backups.jsonl: await readFile has completed
BuildLogRead(b) ==
    /\ builds[b].pc = "logread"
    /\ \E ok \in BOOLEAN :
         /\ ~ok => logFlaky
         /\ Stay(b, [builds[b] EXCEPT !.pc = "logwrite", !.prev = LogRead(ok, backupsLog)])
    /\ UNCHANGED <<envVars, sessionVars, fsVars, starts, archivedDocs, retVars, swVars, logVars, fnVars>>

\* appendJsonlLine on backups.jsonl: await writeFile has completed; appendBackupLog
\* returns and the build clears the ChangeSet
BuildLogWrite(b) ==
    /\ builds[b].pc = "logwrite"
    /\ \E ok \in BOOLEAN :
         /\ ~ok => logFlaky
         /\ backupsLog' = LogWrite(ok, backupsLog, builds[b].prev,
                                   [zip |-> builds[b].zipName, files |-> Len(builds[b].zip)])
         /\ LogEnds(b, builds[b], ok)
    /\ UNCHANGED <<envVars, sessionVars, backupsDir, archives, logsDir, sessionsLog, starts, archivedDocs, retVars, swVars, logVars, fnVars>>

\* the command work-mode.openBackupsFolder: if (!ws) return; await
\* createDirectory(dir) has completed, or has thrown; then revealFileInOS
OpenBackupsFolder ==
    /\ IF ws THEN \E ok \in BOOLEAN : backupsDir' = (backupsDir \/ ok)
       ELSE UNCHANGED backupsDir
    /\ UNCHANGED <<envVars, sessionVars, backupTouched, archives, logsDir, backupsLog, sessionsLog, procVars, histVars, retVars, swVars, logVars, fnVars>>

\* the backup interval fires: setInterval(async () => { await createIncrementalZipIfNeeded() })
TimerFire(t) ==
    /\ t \in liveTimers
    /\ \E b \in BuildIds : builds[b].pc = "idle"
    /\ builds' = [builds EXCEPT ![FreeBuild] = NewBuild("timer", 0)]
    /\ unread' = IF ws THEN {} ELSE unread
    /\ UNCHANGED <<envVars, sessionVars, backupTouched, fsVars, starts, stops, archivedDocs, retVars, swVars, logVars, fnVars>>

(***************************************************************************)
(* Session controller.                                                     *)
(***************************************************************************)
\* initStopwatch() and startIncrementalBackups(), which run without an await,
\* then appendSessionLog up to its first await
StartSession(i) ==
    /\ running' = TRUE
    /\ paused' = FALSE
    /\ IF ws
       THEN /\ backupWatcher' = i
            /\ liveWatchers' = liveWatchers \cup {i}
            /\ disposables' = disposables \cup {i}
            /\ backupTimer' = i
            /\ liveTimers' = liveTimers \cup {i}
            /\ starts' = [starts EXCEPT ![i].pc = "log"]
       ELSE /\ UNCHANGED <<backupWatcher, liveWatchers, disposables, backupTimer, liveTimers>>
            /\ starts' = [starts EXCEPT ![i].pc = "done"]
    /\ startMs' = DateNow
    /\ pausedAccum' = 0
    /\ pauseStartMs' = 0
    /\ pausedTotal' = 0
    /\ archivedDocs' = {}
    /\ UNCHANGED <<envVars, backupTouched, fsVars, builds, stops, unread, retVars, logVars, fnVars>>

\* startWorkMode(): if (running) return; if (cfg.get('enableMinimalUI')) await enableMinimalUI()
StartWorkMode ==
    /\ ~running
    /\ \E i \in StartIds : starts[i].pc = "idle"
    /\ IF cfgMinimalUI
       THEN /\ starts' = [starts EXCEPT ![FreeStart].pc = "ui"]
            /\ UNCHANGED <<envVars, sessionVars, backupTouched, fsVars, builds, stops, histVars, retVars, swVars, logVars, fnVars>>
       ELSE StartSession(FreeStart)

\* startWorkMode() as the first call of it in the behaviour: one session only
StartOnce ==
    /\ \A i \in StartIds : starts[i].pc = "idle"
    /\ StartWorkMode

\* enableMinimalUI() has completed
StartResume(i) ==
    /\ starts[i].pc = "ui"
    /\ StartSession(i)

\* appendSessionLog has returned, or has thrown: the position of its caller
SessionLogEnds(ok) == IF ok \/ LogFailure = "swallowed" THEN "done" ELSE "failed"

\* appendSessionLog({ event: 'start', ... }): await createDirectory(logsDir) has completed
StartLog(i) ==
    /\ starts[i].pc = "log"
    /\ \E ok \in BOOLEAN :
         /\ LogDirMade(ok)
         /\ starts' = [starts EXCEPT ![i].pc = IF ok THEN "logread" ELSE SessionLogEnds(FALSE)]
    /\ UNCHANGED <<envVars, sessionVars, backupTouched, backupsDir, archives, backupsLog, sessionsLog, builds, stops, histVars, retVars, swVars, logVars, fnVars>>

\* appendJsonlLine on sessions.jsonl for the start record: await readFile has completed
StartLogRead(i) ==
    /\ starts[i].pc = "logread"
    /\ \E ok \in BOOLEAN :
         /\ ~ok => logFlaky
         /\ starts' = [starts EXCEPT ![i].pc = "logwrite", ![i].prev = LogRead(ok, sessionsLog)]
    /\ UNCHANGED <<envVars, sessionVars, backupTouched, fsVars, builds, stops, histVars, retVars, swVars, logVars, fnVars>>

\* appendJsonlLine on sessions.jsonl for the start record: await writeFile has
\* completed, and startWorkMode returns
StartLogWrite(i) ==
    /\ starts[i].pc = "logwrite"
    /\ \E ok \in BOOLEAN :
         /\ ~ok => logFlaky
         /\ sessionsLog' = LogWrite(ok, sessionsLog, starts[i].prev, [event |-> "start"])
         /\ starts' = [starts EXCEPT ![i].pc = SessionLogEnds(ok), ![i].prev = <<>>]
    /\ UNCHANGED <<envVars, sessionVars, backupTouched, backupsDir, archives, logsDir, backupsLog, builds, stops, histVars, retVars, swVars, logVars, fnVars>>

\* elapsedMs()
elapsedMs ==
    LET pauseTail == IF paused /\ pauseStartMs # 0 THEN DateNow - pauseStartMs ELSE 0
        raw == DateNow - startMs - pausedAccum - pauseTail
    IN  IF raw > 0 THEN raw ELSE 0

\* stopWorkMode() up to its first await: the flags, then stopIncrementalBackups(true)
\* up to the first await of the final build or, when the final build returns at
\* once, up to await createIncrementalZipIfNeeded() (line 287), which yields to the
\* host before backupTouched.clear() (line 288)
StopWorkMode ==
    /\ running
    /\ \E s \in StopIds : stops[s].pc = "idle"
    /\ \E b \in BuildIds : builds[b].pc = "idle"
    /\ running' = FALSE
    /\ paused' = FALSE
    /\ liveTimers' = liveTimers \ {backupTimer}
    /\ backupTimer' = 0
    /\ liveWatchers' = liveWatchers \ {backupWatcher}
    /\ backupWatcher' = 0
    /\ disposables' = {}
    /\ LET final == NewBuild("stop", FreeStop)
       IN  /\ builds' = [builds EXCEPT ![FreeBuild] = final]
           /\ stops' = [stops EXCEPT ![FreeStop] =
                          [IdleStop EXCEPT
                             !.pc = IF final.pc = "done" THEN "clear" ELSE "build",
                             !.build = FreeBuild,
                             !.touched0 = backupTouched,
                             !.netElapsed0 = (DateNow - startMs) - pausedTotal,
                             !.requestedAt = DateNow]]
    /\ unread' = IF ws THEN {} ELSE unread
    /\ UNCHANGED <<envVars, backupTouched, fsVars, starts, archivedDocs, retVars, swVars, logVars, fnVars>>

\* stopIncrementalBackups after await createIncrementalZipIfNeeded() of a final build
\* that returned at once: backupTouched.clear() (line 288); stopWorkMode then goes
\* on to await disableMinimalUI() (line 134)
StopClear(s) ==
    /\ stops[s].pc = "clear"
    /\ stops' = [stops EXCEPT ![s].pc = "ui"]
    /\ backupTouched' = {}
    /\ unread' = {}
    /\ UNCHANGED <<envVars, sessionVars, fsVars, builds, starts, archivedDocs, retVars, swVars, logVars, fnVars>>

\* toggleWorkMode(): running ? await stopWorkMode() : await startWorkMode()
ToggleWorkMode == IF running THEN StopWorkMode ELSE StartWorkMode

\* disableMinimalUI() has completed; appendSessionLog({ ..., durationMs: elapsedMs() }) starts
StopResume(s) ==
    /\ stops[s].pc = "ui"
    /\ stops' = [stops EXCEPT ![s].pc = IF ws THEN "log" ELSE "done",
                              ![s].durationMs = elapsedMs,
                              ![s].waited = DateNow - stops[s].requestedAt]
    /\ UNCHANGED <<envVars, sessionVars, backupTouched, fsVars, builds, starts, histVars, retVars, swVars, logVars, fnVars>>

\* appendSessionLog({ event: 'stop', ... }): await createDirectory(logsDir) has completed
StopLog(s) ==
    /\ stops[s].pc = "log"
    /\ \E ok \in BOOLEAN :
         /\ LogDirMade(ok)
         /\ stops' = [stops EXCEPT ![s].pc = IF ok THEN "logread" ELSE SessionLogEnds(FALSE)]
    /\ UNCHANGED <<envVars, sessionVars, backupTouched, backupsDir, archives, backupsLog, sessionsLog, builds, starts, histVars, retVars, swVars, logVars, fnVars>>

\* appendJsonlLine on sessions.jsonl for the stop record: await readFile has completed
StopLogRead(s) ==
    /\ stops[s].pc = "logread"
    /\ \E ok \in BOOLEAN :
         /\ ~ok => logFlaky
         /\ stops' = [stops EXCEPT ![s].pc = "logwrite", ![s].prev = LogRead(ok, sessionsLog)]
    /\ UNCHANGED <<envVars, sessionVars, backupTouched, fsVars, builds, starts, histVars, retVars, swVars, logVars, fnVars>>

\* appendJsonlLine on sessions.jsonl for the stop record: await writeFile has
\* completed, and stopWorkMode shows its message and returns
StopLogWrite(s) ==
    /\ stops[s].pc = "logwrite"
    /\ \E ok \in BOOLEAN :
         /\ ~ok => logFlaky
         /\ sessionsLog' = LogWrite(ok, sessionsLog, stops[s].prev,
                                    [event |-> "stop", durationMs |-> stops[s].durationMs])
         /\ stops' = [stops EXCEPT ![s].pc = SessionLogEnds(ok), ![s].prev = <<>>]
    /\ UNCHANGED <<envVars, sessionVars, backupTouched, backupsDir, archives, logsDir, backupsLog, builds, starts, histVars, retVars, swVars, logVars, fnVars>>

CanPause_Mut(isRunning) == TRUE

\* pauseResume(): if (!running) return
CanPause(isRunning) == isRunning

Resumed_Mut(accum, start, t) == accum

\* pausedAccum += Date.now() - pauseStartMs
Resumed(accum, start, t) == accum + (t - start)

\* pauseResume(): pause and note the time, or resume and add the pause to pausedAccum
PauseResume ==
    /\ CanPause(running)
    /\ IF ~paused
       THEN /\ paused' = TRUE
            /\ pauseStartMs' = DateNow
            /\ UNCHANGED pausedAccum
       ELSE /\ paused' = FALSE
            /\ pausedAccum' = Resumed(pausedAccum, pauseStartMs, DateNow)
            /\ pauseStartMs' = 0
    /\ UNCHANGED <<envVars, running, backupTimer, liveTimers, backupWatcher, liveWatchers, disposables>>
    /\ UNCHANGED <<backupTouched, fsVars, procVars, histVars, retVars, startMs, pausedTotal, logVars, fnVars>>

\* Date.now() moves on by one unit
ClockAdvance ==
    /\ now < MaxTime
    /\ now' = now + 1
    /\ utcOffset' \in OffsetsAfter(utcOffset)
    /\ pausedTotal' = IF running /\ paused THEN pausedTotal + 1 ELSE pausedTotal
    /\ UNCHANGED <<ws, cfgMinimalUI, cfgExcludes, cfgMaxItems, disk, docs, events>>
    /\ UNCHANGED <<startMs, pausedAccum, pauseStartMs>>
    /\ UNCHANGED <<sessionVars, backupTouched, fsVars, procVars, histVars, retVars, logVars, fnVars>>

(***************************************************************************)
(* The session specification.                                              *)
(***************************************************************************)
InitWith(ids) ==
    /\ ws \in BOOLEAN
    /\ cfgExcludes = NoExcludes
    /\ cfgMaxItems \in MaxItemsChoices
    /\ now = 0
    /\ utcOffset = 2
    /\ zipAppends = <<>>
    /\ events = 0
    /\ disk = [p \in AllPaths |-> IF p \in Paths THEN "old" ELSE "none"]
    /\ \E u \in BOOLEAN :
         docs = [d \in ids |-> IF DocScheme(d) = "file"
                                  THEN [open |-> TRUE, isDirty |-> FALSE]
                                  ELSE [open |-> u, isDirty |-> u]]
    /\ running = FALSE
    /\ paused = FALSE
    /\ backupTimer = 0
    /\ liveTimers = {}
    /\ backupWatcher = 0
    /\ liveWatchers = {}
    /\ disposables = {}
    /\ backupTouched = {}
    /\ backupsDir = FALSE
    /\ archives = <<>>
    /\ logsDir = FALSE
    /\ backupsLog = <<>>
    /\ sessionsLog = <<>>
    /\ builds = [b \in BuildIds |-> IdleBuild]
    /\ starts = [i \in StartIds |-> IdleStart]
    /\ stops = [s \in StopIds |-> IdleStop]
    /\ unread = {}
    /\ archivedDocs = {}
    /\ retDir = {}
    /\ retMax = 0
    /\ retZips = <<>>
    /\ retPc = "off"
    /\ retDir0 = {}
    /\ retDeleted = <<>>
    /\ startMs = 0
    /\ pausedAccum = 0
    /\ pauseStartMs = 0
    /\ pausedTotal = 0
    /\ jsonl = <<>>
    /\ appends = <<>>
    /\ fnPc = "off"
    /\ fnArg = <<>>
    /\ fnResult = <<>>

\* the state at activation with the two documents docA and docU
InitState == InitWith(DocIds)

\* the backup engine: enableMinimalUI is off, so startWorkMode has no await
\* before the session is set up
Init ==
    /\ InitState
    /\ logFlaky = FALSE
    /\ zipFlaky = FALSE
    /\ cfgMinimalUI = FALSE

Next ==
    \/ Tick
    \/ ConfigChange
    \/ \E p \in Paths : ExternalWrite(p)
    \/ \E p \in Paths : ExternalMkdir(p)
    \/ \E p \in Paths : ExternalDelete(p)
    \/ \E d \in DocIds : EditDoc(d)
    \/ \E d \in DocIds : SaveDoc(d)
    \/ \E d \in DocIds : OpenUntitled(d)
    \/ \E d \in DocIds : CloseUntitled(d)
    \/ OpenBackupsFolder
    \/ StartWorkMode
    \/ \E i \in StartIds : StartLog(i)
    \/ \E i \in StartIds : StartLogRead(i)
    \/ \E i \in StartIds : StartLogWrite(i)
    \/ StopWorkMode
    \/ ToggleWorkMode
    \/ \E s \in StopIds : StopClear(s)
    \/ \E s \in StopIds : StopResume(s)
    \/ \E s \in StopIds : StopLog(s)
    \/ \E s \in StopIds : StopLogRead(s)
    \/ \E s \in StopIds : StopLogWrite(s)
    \/ \E t \in StartIds : TimerFire(t)
    \/ \E b \in BuildIds : BuildMkdir(b)
    \/ \E b \in BuildIds : BuildStat(b)
    \/ \E b \in BuildIds : BuildRead(b)
    \/ \E b \in BuildIds : BuildWrite(b)
    \/ \E b \in BuildIds : BuildEnforce(b)
    \/ \E b \in BuildIds : BuildDelete(b)
    \/ \E b \in BuildIds : BuildLog(b)
    \/ \E b \in BuildIds : BuildLogRead(b)
    \/ \E b \in BuildIds : BuildLogWrite(b)
    \/ PauseResume

Spec == Init /\ [][Next]_vars

(***************************************************************************)
(* The change tracker specification: a workspace folder is open and no     *)
(* document is dirty or untitled; files change on disk and the clock moves *)
(* while sessions start and stop and builds run.                           *)
(***************************************************************************)
InitTracker ==
    /\ InitState
    /\ logFlaky = FALSE
    /\ zipFlaky = FALSE
    /\ ws = TRUE
    /\ docs["docU"].open = FALSE
    /\ cfgMinimalUI = FALSE

NextTracker ==
    \/ Tick
    \/ \E p \in Paths : ExternalWrite(p)
    \/ StartOnce
    \/ \E i \in StartIds : StartLog(i)
    \/ \E i \in StartIds : StartLogRead(i)
    \/ \E i \in StartIds : StartLogWrite(i)
    \/ StopWorkMode
    \/ \E s \in StopIds : StopClear(s)
    \/ \E s \in StopIds : StopResume(s)
    \/ \E s \in StopIds : StopLog(s)
    \/ \E s \in StopIds : StopLogRead(s)
    \/ \E s \in StopIds : StopLogWrite(s)
    \/ \E t \in StartIds : TimerFire(t)
    \/ \E b \in BuildIds : BuildMkdir(b)
    \/ \E b \in BuildIds : BuildStat(b)
    \/ \E b \in BuildIds : BuildRead(b)
    \/ \E b \in BuildIds : BuildWrite(b)
    \/ \E b \in BuildIds : BuildEnforce(b)
    \/ \E b \in BuildIds : BuildDelete(b)
    \/ \E b \in BuildIds : BuildLog(b)
    \/ \E b \in BuildIds : BuildLogRead(b)
    \/ \E b \in BuildIds : BuildLogWrite(b)
    \/ PauseResume
    \/ OpenBackupsFolder

SpecTracker == InitTracker /\ [][NextTracker]_vars

(***************************************************************************)
(* The restart specification: a.ts changes on disk while sessions start,   *)
(* stop and start again, and builds run.                                   *)
(***************************************************************************)
NextRestart ==
    \/ ExternalWrite(PathA)
    \/ StartWorkMode
    \/ \E i \in StartIds : StartLog(i)
    \/ \E i \in StartIds : StartLogRead(i)
    \/ \E i \in StartIds : StartLogWrite(i)
    \/ StopWorkMode
    \/ \E s \in StopIds : StopClear(s)
    \/ \E s \in StopIds : StopResume(s)
    \/ \E s \in StopIds : StopLog(s)
    \/ \E s \in StopIds : StopLogRead(s)
    \/ \E s \in StopIds : StopLogWrite(s)
    \/ \E t \in StartIds : TimerFire(t)
    \/ \E b \in BuildIds : BuildMkdir(b)
    \/ \E b \in BuildIds : BuildStat(b)
    \/ \E b \in BuildIds : BuildRead(b)
    \/ \E b \in BuildIds : BuildWrite(b)
    \/ \E b \in BuildIds : BuildEnforce(b)
    \/ \E b \in BuildIds : BuildLog(b)
    \/ \E b \in BuildIds : BuildLogRead(b)
    \/ \E b \in BuildIds : BuildLogWrite(b)
    \/ PauseResume
    \/ OpenBackupsFolder

SpecRestart == InitTracker /\ [][NextRestart]_vars

(***************************************************************************)
(* The file system specification: files and folders are written, made and  *)
(* deleted in the workspace, and the backups folder is opened, while       *)
(* sessions start and stop and builds run.  No document is dirty.          *)
(***************************************************************************)
NextFiles ==
    \/ \E p \in Paths : ExternalWrite(p)
    \/ \E p \in Paths : ExternalMkdir(p)
    \/ \E p \in Paths : ExternalDelete(p)
    \/ OpenBackupsFolder
    \/ StartOnce
    \/ \E i \in StartIds : StartLog(i)
    \/ \E i \in StartIds : StartLogRead(i)
    \/ \E i \in StartIds : StartLogWrite(i)
    \/ StopWorkMode
    \/ \E s \in StopIds : StopClear(s)
    \/ \E s \in StopIds : StopResume(s)
    \/ \E s \in StopIds : StopLog(s)
    \/ \E s \in StopIds : StopLogRead(s)
    \/ \E s \in StopIds : StopLogWrite(s)
    \/ \E t \in StartIds : TimerFire(t)
    \/ \E b \in BuildIds : BuildMkdir(b)
    \/ \E b \in BuildIds : BuildStat(b)
    \/ \E b \in BuildIds : BuildRead(b)
    \/ \E b \in BuildIds : BuildWrite(b)
    \/ \E b \in BuildIds : BuildEnforce(b)
    \/ \E b \in BuildIds : BuildLog(b)
    \/ \E b \in BuildIds : BuildLogRead(b)
    \/ \E b \in BuildIds : BuildLogWrite(b)
    \/ PauseResume

SpecFiles == InitTracker /\ [][NextFiles]_vars

(***************************************************************************)
(* The editor specification: the user types in a.ts, saves it, opens and   *)
(* closes an untitled buffer, and b.js changes on disk, while sessions     *)
(* start and stop and builds run.                                          *)
(***************************************************************************)
InitEditor ==
    /\ InitState
    /\ logFlaky = FALSE
    /\ zipFlaky = FALSE
    /\ ws = TRUE
    /\ docs["docU"].open = FALSE
    /\ cfgMinimalUI = FALSE

NextEditor ==
    \/ ExternalWrite(PathB)
    \/ \E d \in DocIds : EditDoc(d)
    \/ \E d \in DocIds : SaveDoc(d)
    \/ \E d \in DocIds : OpenUntitled(d)
    \/ \E d \in DocIds : CloseUntitled(d)
    \/ StartOnce
    \/ \E i \in StartIds : StartLog(i)
    \/ \E i \in StartIds : StartLogRead(i)
    \/ \E i \in StartIds : StartLogWrite(i)
    \/ StopWorkMode
    \/ \E s \in StopIds : StopClear(s)
    \/ \E s \in StopIds : StopResume(s)
    \/ \E s \in StopIds : StopLog(s)
    \/ \E s \in StopIds : StopLogRead(s)
    \/ \E s \in StopIds : StopLogWrite(s)
    \/ \E t \in StartIds : TimerFire(t)
    \/ \E b \in BuildIds : BuildMkdir(b)
    \/ \E b \in BuildIds : BuildStat(b)
    \/ \E b \in BuildIds : BuildRead(b)
    \/ \E b \in BuildIds : BuildWrite(b)
    \/ \E b \in BuildIds : BuildEnforce(b)
    \/ \E b \in BuildIds : BuildLog(b)
    \/ \E b \in BuildIds : BuildLogRead(b)
    \/ \E b \in BuildIds : BuildLogWrite(b)
    \/ PauseResume
    \/ OpenBackupsFolder

SpecEditor == InitEditor /\ [][NextEditor]_vars

(***************************************************************************)
(* The session controller specification: enableMinimalUI is on, so a start *)
(* awaits the host before it sets the session up, and commands overlap.    *)
(* There are no editor or disk events: an untitled buffer, when open,      *)
(* gives the builds their content.                                         *)
(***************************************************************************)
InitSession ==
    /\ InitState
    /\ logFlaky = FALSE
    /\ zipFlaky = FALSE
    /\ cfgMinimalUI = TRUE

NextSession ==
    \/ StartWorkMode
    \/ \E i \in StartIds : StartResume(i)
    \/ \E i \in StartIds : StartLog(i)
    \/ \E i \in StartIds : StartLogRead(i)
    \/ \E i \in StartIds : StartLogWrite(i)
    \/ StopWorkMode
    \/ ToggleWorkMode
    \/ \E s \in StopIds : StopClear(s)
    \/ \E s \in StopIds : StopResume(s)
    \/ \E s \in StopIds : StopLog(s)
    \/ \E s \in StopIds : StopLogRead(s)
    \/ \E s \in StopIds : StopLogWrite(s)
    \/ PauseResume
    \/ \E t \in StartIds : TimerFire(t)
    \/ \E b \in BuildIds : BuildMkdir(b)
    \/ \E b \in BuildIds : BuildWrite(b)
    \/ \E b \in BuildIds : BuildEnforce(b)
    \/ \E b \in BuildIds : BuildLog(b)
    \/ \E b \in BuildIds : BuildLogRead(b)
    \/ \E b \in BuildIds : BuildLogWrite(b)
    \/ OpenBackupsFolder

SpecSession == InitSession /\ [][NextSession]_vars

(***************************************************************************)
(* The retention specification: one call of enforceBackupLimit(dirUri,     *)
(* maxItems) on a directory of archives, other files and a folder.         *)
(***************************************************************************)
ZipSuffix == <<".", "z", "i", "p">>

RetEntries ==
    {[name |-> ZipNameAt(t), type |-> "file"] : t \in 0..3}
        \cup {[name |-> <<"a">> \o ZipSuffix, type |-> "file"],
              [name |-> <<"d">> \o ZipSuffix, type |-> "dir"],
              [name |-> PathA, type |-> "file"]}

InitRetention ==
    /\ InitState
    /\ logFlaky = FALSE
    /\ zipFlaky = FALSE
    /\ ws = TRUE
    /\ docs["docU"].open = FALSE
    /\ cfgMinimalUI = FALSE

\* enforceBackupLimit is called
RetCall ==
    /\ retPc = "off"
    /\ \E dir \in SUBSET RetEntries : retDir' = dir /\ retDir0' = dir
    /\ \E m \in 0..MaxRetain : retMax' = m
    /\ retPc' = "list"
    /\ UNCHANGED <<envVars, sessionVars, backupTouched, fsVars, procVars, histVars, swVars, logVars, fnVars, retZips, retDeleted>>

\* const entries = await readDirectory(dirUri); const zips = entries.filter().map().sort()
RetList ==
    /\ retPc = "list"
    /\ retZips' = ZipList(retDir)
    /\ retPc' = "loop"
    /\ UNCHANGED <<envVars, sessionVars, backupTouched, fsVars, procVars, histVars, swVars, logVars, fnVars, retDir, retMax, retDir0, retDeleted>>

\* one turn of the loop: const oldest = zips.shift(); if (oldest) await delete(joinPath(dirUri, oldest))
\* (shift() of an empty array is undefined, and nothing is deleted)
RetDelete ==
    /\ retPc = "loop"
    /\ OverLimit(Len(retZips), retMax)
    /\ IF retZips = <<>>
       THEN UNCHANGED <<retZips, retDir, retDeleted>>
       ELSE /\ retZips' = Tail(retZips)
            /\ retDir' = {e \in retDir : e.name # Head(retZips)}
            /\ retDeleted' = Append(retDeleted, Head(retZips))
    /\ UNCHANGED <<envVars, sessionVars, backupTouched, fsVars, procVars, histVars, swVars, logVars, fnVars, retMax, retPc, retDir0>>

\* the loop condition is false: enforceBackupLimit returns
RetReturn ==
    /\ retPc = "loop"
    /\ ~OverLimit(Len(retZips), retMax)
    /\ retPc' = "done"
    /\ UNCHANGED <<envVars, sessionVars, backupTouched, fsVars, procVars, histVars, swVars, logVars, fnVars, retDir, retMax, retZips, retDir0, retDeleted>>

\* readDirectory or delete throws: catch {} ends the call
RetThrow ==
    /\ retPc \in {"list", "loop"}
    /\ retPc = "loop" => OverLimit(Len(retZips), retMax)
    /\ retPc' = "failed"
    /\ UNCHANGED <<envVars, sessionVars, backupTouched, fsVars, procVars, histVars, swVars, logVars, fnVars, retDir, retMax, retZips, retDir0, retDeleted>>

NextRetention ==
    \/ RetCall
    \/ RetList
    \/ RetDelete
    \/ RetReturn
    \/ RetThrow

SpecRetention == InitRetention /\ [][NextRetention]_vars

(***************************************************************************)
(* The log writer.  A file is its bytes; a record is the list of its       *)
(* properties: <<key, kind, value>> with kind "s" (string) or "n" (number).*)
(***************************************************************************)
NL == "\n"

\* JSON.stringify of a string: the characters, with ", \ and the newline escaped
RECURSIVE Escape(_)
Escape(str) ==
    IF str = <<>> THEN <<>>
    ELSE (CASE Head(str) = "\"" -> <<"\\", "\"">>
            [] Head(str) = "\\" -> <<"\\", "\\">>
            [] Head(str) = NL -> <<"\\", "n">>
            [] OTHER -> <<Head(str)>>) \o Escape(Tail(str))

JsonString(str) == <<"\"">> \o Escape(str) \o <<"\"">>

\* JSON.stringify of a non-negative integer: its decimal digits
RECURSIVE JsonNumber(_)
JsonNumber(n) ==
    IF n < 10 THEN <<SubSeq(<<"0", "1", "2", "3", "4", "5", "6", "7", "8", "9">>, n + 1, n + 1)[1]>>
    ELSE JsonNumber(n \div 10) \o JsonNumber(n % 10)

JsonValue(prop) == IF prop[2] = "s" THEN JsonString(prop[3]) ELSE JsonNumber(prop[3])

RECURSIVE JsonProps(_)
JsonProps(obj) ==
    IF obj = <<>> THEN <<>>
    ELSE JsonString(obj[1][1]) \o <<":">> \o JsonValue(obj[1])
            \o (IF Len(obj) > 1 THEN <<",">> ELSE <<>>) \o JsonProps(Tail(obj))

\* JSON.stringify(obj)
Stringify(obj) == <<"{">> \o JsonProps(obj) \o <<"}">>

LineOf_Mut(obj) == Stringify(obj)

\* const line = enc.encode(JSON.stringify(obj) + '\n')
LineOf(obj) == Stringify(obj) \o <<NL>>

Concat_Mut(prev, line) == line

\* out.set(prev, 0); out.set(line, prev.length)
Concat(prev, line) == prev \o line

\* localISOWithTZ() at local time t in a zone off seconds ahead of UTC: the local
\* date and time, the sign and the offset (one digit each here)
localISOWithTZ(t, off) ==
    localStamp(t) \o <<IF off >= 0 THEN "+" ELSE "-">> \o localStamp(IF off >= 0 THEN off ELSE 0 - off)

\* { at: localISOWithTZ(), zip: zipName, files: filesCount }
BackupRecord(t, zipName, filesCount) ==
    <<<<<<"a", "t">>, "s", localISOWithTZ(t, utcOffset)>>,
      <<<<"z", "i", "p">>, "s", zipName>>,
      <<<<"f", "i", "l", "e", "s">>, "n", filesCount>>>>

\* { event: 'start', at: localISOWithTZ() }
StartRecord(t) ==
    <<<<<<"e", "v", "e", "n", "t">>, "s", <<"s", "t", "a", "r", "t">>>>,
      <<<<"a", "t">>, "s", localISOWithTZ(t, utcOffset)>>>>

\* { event: 'stop', at: localISOWithTZ(), durationMs: elapsedMs() }
StopRecord(t, durationMs) ==
    <<<<<<"e", "v", "e", "n", "t">>, "s", <<"s", "t", "o", "p">>>>,
      <<<<"a", "t">>, "s", localISOWithTZ(t, utcOffset)>>,
      <<<<"d", "u", "r", "a", "t", "i", "o", "n", "M", "s">>, "n", durationMs>>>>

\* the lines of a file: the texts its newlines end, and the rest after the last
Lines(bytes) ==
    LET nl == {i \in 1..Len(bytes) : bytes[i] = NL}
        n == Cardinality(nl)
        End(k) == CHOOSE i \in nl : Cardinality({j \in nl : j < i}) = k - 1
        Start(k) == IF k = 1 THEN 1 ELSE End(k - 1) + 1
        last == IF n = 0 THEN 0 ELSE End(n)
        full == IF n = 0 THEN <<>> ELSE [k \in 1..n |-> SubSeq(bytes, Start(k), End(k) - 1)]
    IN  IF last < Len(bytes) THEN Append(full, SubSeq(bytes, last + 1, Len(bytes))) ELSE full

(***************************************************************************)
(* The log specification: calls of appendBackupLog and appendSessionLog,   *)
(* each suspended at its awaits, on the two files of the logs directory,   *)
(* while the clock moves.                                                  *)
(***************************************************************************)
LogFiles == {"backups.jsonl", "sessions.jsonl"}

AppendIds == 1..MaxAppends

\* a call up to await createDirectory(logsDir): obj is the record, once the call has
\* it; zipName and filesCount are the arguments of appendBackupLog; prev is what
\* appendJsonlLine has read; found, readFailed and failed are history
NewAppend(file, obj, zipName, filesCount) ==
    [pc |-> "mkdir", file |-> file, obj |-> obj, zipName |-> zipName, filesCount |-> filesCount,
     prev |-> <<>>, found |-> FALSE, readFailed |-> FALSE, failed |-> FALSE]

InitLog ==
    /\ InitState
    /\ logFlaky = FALSE
    /\ zipFlaky = FALSE
    /\ ws = TRUE
    /\ docs["docU"].open = FALSE
    /\ cfgMinimalUI = FALSE

\* somebody creates an empty log file, and the logs directory when it is not there
ExternalTouch(f) ==
    /\ f \notin DOMAIN jsonl
    /\ logsDir' = TRUE
    /\ jsonl' = jsonl @@ (f :> <<>>)
    /\ UNCHANGED <<envVars, sessionVars, backupTouched, backupsDir, archives, backupsLog, sessionsLog,
                   procVars, histVars, retVars, swVars, appends, logFlaky, zipFlaky, zipAppends, fnVars>>

\* appendBackupLog(wsUri, zipName, filesCount) up to await createDirectory(logsDir):
\* the record does not exist yet
AppendBackupLogCall ==
    /\ Len(appends) < MaxAppends
    /\ \E t \in 0..1, filesCount \in {1, 12} :
         appends' = Append(appends, NewAppend("backups.jsonl", <<>>, ZipNameAt(t), filesCount))
    /\ UNCHANGED <<envVars, sessionVars, backupTouched, fsVars, procVars, histVars, retVars, swVars, jsonl, logFlaky, zipFlaky, zipAppends, fnVars>>

\* appendSessionLog(obj) up to await createDirectory(logsDir): the caller has made
\* the record, with the time of the call
AppendSessionLogCall ==
    /\ Len(appends) < MaxAppends
    /\ \E obj \in {StartRecord(LocalTime), StopRecord(LocalTime, 0), StopRecord(LocalTime, 12)} :
         appends' = Append(appends, IF ws THEN NewAppend("sessions.jsonl", obj, <<>>, 0)
                                    ELSE [NewAppend("sessions.jsonl", obj, <<>>, 0) EXCEPT !.pc = "done"])
    /\ UNCHANGED <<envVars, sessionVars, backupTouched, fsVars, procVars, histVars, retVars, swVars, jsonl, logFlaky, zipFlaky, zipAppends, fnVars>>

\* the record appendJsonlLine is called with: appendBackupLog makes it after its
\* await, { at: localISOWithTZ(), zip: zipName, files: filesCount }, with the time
\* of that moment; appendSessionLog passes on the one it was given
RecordOf(call) ==
    IF call.file = "backups.jsonl" THEN BackupRecord(LocalTime, call.zipName, call.filesCount)
    ELSE call.obj

\* await createDirectory(logsDir) has completed, or has thrown into catch {}; then
\* the call of appendJsonlLine up to await readFile(fileUri)
AppendMkdir(a) ==
    /\ a \in DOMAIN appends
    /\ appends[a].pc = "mkdir"
    /\ \E ok \in BOOLEAN :
         IF ok
         THEN /\ logsDir' = TRUE
              /\ appends' = [appends EXCEPT ![a].pc = "read", ![a].obj = RecordOf(appends[a])]
         ELSE /\ UNCHANGED logsDir
              /\ appends' = [appends EXCEPT ![a].pc = "done", ![a].failed = TRUE]
    /\ UNCHANGED <<envVars, sessionVars, backupTouched, backupsDir, archives, backupsLog, sessionsLog,
                   procVars, histVars, retVars, swVars, jsonl, logFlaky, zipFlaky, zipAppends, fnVars>>

\* appendJsonlLine: await readFile(fileUri); a missing or unreadable file reads as empty
AppendRead(a) ==
    /\ a \in DOMAIN appends
    /\ appends[a].pc = "read"
    /\ \E ok \in BOOLEAN :
         /\ ok => appends[a].file \in DOMAIN jsonl
         /\ appends' = [appends EXCEPT ![a].pc = "write",
                                       ![a].prev = IF ok THEN jsonl[appends[a].file] ELSE <<>>,
                                       ![a].found = ok,
                                       ![a].readFailed = ~ok /\ appends[a].file \in DOMAIN jsonl]
    /\ UNCHANGED <<envVars, sessionVars, backupTouched, fsVars, procVars, histVars, retVars, swVars, jsonl, logFlaky, zipFlaky, zipAppends, fnVars>>

\* appendJsonlLine: await writeFile(fileUri, out) has completed, or has thrown into
\* the caller's catch {}
AppendWrite(a) ==
    /\ a \in DOMAIN appends
    /\ appends[a].pc = "write"
    /\ \E ok \in BOOLEAN :
         IF ok
         THEN /\ jsonl' = [f \in DOMAIN jsonl \cup {appends[a].file} |->
                              IF f = appends[a].file
                              THEN Concat(appends[a].prev, LineOf(appends[a].obj))
                              ELSE jsonl[f]]
              /\ appends' = [appends EXCEPT ![a].pc = "done"]
         ELSE /\ UNCHANGED jsonl
              /\ appends' = [appends EXCEPT ![a].pc = "done", ![a].failed = TRUE]
    /\ UNCHANGED <<envVars, sessionVars, backupTouched, fsVars, procVars, histVars, retVars, swVars, logFlaky, zipFlaky, zipAppends, fnVars>>

NextLog ==
    \/ ClockAdvance
    \/ \E f \in LogFiles : ExternalTouch(f)
    \/ AppendBackupLogCall
    \/ AppendSessionLogCall
    \/ \E a \in AppendIds : AppendMkdir(a)
    \/ \E a \in AppendIds : AppendRead(a)
    \/ \E a \in AppendIds : AppendWrite(a)

SpecLog == InitLog /\ [][NextLog]_vars

(***************************************************************************)
(* The failing-log specification: the I/O of the logs directory can fail   *)
(* at every call of the log writer.  The only editor event is typing.      *)
(***************************************************************************)
InitLogFailure ==
    /\ InitState
    /\ logFlaky = TRUE
    /\ zipFlaky = FALSE
    /\ ws = TRUE
    /\ docs["docU"].open = FALSE
    /\ cfgMinimalUI = FALSE

NextLogFailure ==
    \/ \E d \in DocIds : EditDoc(d)
    \/ StartOnce
    \/ \E i \in StartIds : StartLog(i)
    \/ \E i \in StartIds : StartLogRead(i)
    \/ \E i \in StartIds : StartLogWrite(i)
    \/ StopWorkMode
    \/ \E s \in StopIds : StopClear(s)
    \/ \E s \in StopIds : StopResume(s)
    \/ \E s \in StopIds : StopLog(s)
    \/ \E s \in StopIds : StopLogRead(s)
    \/ \E s \in StopIds : StopLogWrite(s)
    \/ \E t \in StartIds : TimerFire(t)
    \/ \E b \in BuildIds : BuildMkdir(b)
    \/ \E b \in BuildIds : BuildStat(b)
    \/ \E b \in BuildIds : BuildRead(b)
    \/ \E b \in BuildIds : BuildWrite(b)
    \/ \E b \in BuildIds : BuildEnforce(b)
    \/ \E b \in BuildIds : BuildLog(b)
    \/ \E b \in BuildIds : BuildLogRead(b)
    \/ \E b \in BuildIds : BuildLogWrite(b)
    \/ PauseResume
    \/ OpenBackupsFolder

SpecLogFailure == InitLogFailure /\ [][NextLogFailure]_vars

(***************************************************************************)
(* The packaging specification: zip.addFile can throw for an unsaved entry *)
(* (an untitled buffer is open), and files change on disk during a session.*)
(* With the untitled buffer open the final build always has something to   *)
(* save, so a stop never waits at "clear" here.                            *)
(***************************************************************************)
InitPackaging ==
    /\ InitState
    /\ logFlaky = FALSE
    /\ zipFlaky = TRUE
    /\ ws = TRUE
    /\ docs["docU"].open = TRUE
    /\ cfgMinimalUI = FALSE

NextPackaging ==
    \/ \E p \in Paths : ExternalWrite(p)
    \/ StartOnce
    \/ \E i \in StartIds : StartLog(i)
    \/ \E i \in StartIds : StartLogRead(i)
    \/ \E i \in StartIds : StartLogWrite(i)
    \/ StopWorkMode
    \/ \E s \in StopIds : StopResume(s)
    \/ \E s \in StopIds : StopLog(s)
    \/ \E s \in StopIds : StopLogRead(s)
    \/ \E s \in StopIds : StopLogWrite(s)
    \/ \E t \in StartIds : TimerFire(t)
    \/ \E b \in BuildIds : BuildMkdir(b)
    \/ \E b \in BuildIds : BuildStat(b)
    \/ \E b \in BuildIds : BuildRead(b)
    \/ \E b \in BuildIds : BuildWrite(b)
    \/ \E b \in BuildIds : BuildEnforce(b)
    \/ \E b \in BuildIds : BuildLog(b)
    \/ \E b \in BuildIds : BuildLogRead(b)
    \/ \E b \in BuildIds : BuildLogWrite(b)
    \/ PauseResume
    \/ OpenBackupsFolder

SpecPackaging == InitPackaging /\ [][NextPackaging]_vars

(***************************************************************************)
(* The exclusion specification: during a session files change on disk, one *)
(* of them under .git, the user types in a.ts and changes backup.excludes; *)
(* an untitled buffer is open, so that every build has something to package.*)
(***************************************************************************)
InitExclusion ==
    /\ InitState
    /\ logFlaky = FALSE
    /\ zipFlaky = FALSE
    /\ ws = TRUE
    /\ docs["docU"].open = TRUE
    /\ cfgMinimalUI = FALSE

NextExclusion ==
    \/ ConfigChange
    \/ \E p \in {PathA, PathGit} : ExternalWrite(p)
    \/ \E d \in DocIds : EditDoc(d)
    \/ StartOnce
    \/ \E i \in StartIds : StartLog(i)
    \/ \E i \in StartIds : StartLogRead(i)
    \/ \E i \in StartIds : StartLogWrite(i)
    \/ StopWorkMode
    \/ \E s \in StopIds : StopResume(s)
    \/ \E s \in StopIds : StopLog(s)
    \/ \E s \in StopIds : StopLogRead(s)
    \/ \E s \in StopIds : StopLogWrite(s)
    \/ \E t \in StartIds : TimerFire(t)
    \/ \E b \in BuildIds : BuildMkdir(b)
    \/ \E b \in BuildIds : BuildStat(b)
    \/ \E b \in BuildIds : BuildRead(b)
    \/ \E b \in BuildIds : BuildWrite(b)
    \/ \E b \in BuildIds : BuildEnforce(b)
    \/ \E b \in BuildIds : BuildLog(b)
    \/ \E b \in BuildIds : BuildLogRead(b)
    \/ \E b \in BuildIds : BuildLogWrite(b)
    \/ PauseResume
    \/ OpenBackupsFolder

SpecExclusion == InitExclusion /\ [][NextExclusion]_vars

(***************************************************************************)
(* The final-build specification: three files are open, one of them beside *)
(* the workspace folder and one named ..n.ts inside it, with or without an *)
(* untitled buffer; the user types in the files and changes                *)
(* backup.excludes, files change on disk, zip.addFile can throw, and a     *)
(* session starts and stops.  The backup interval is longer than the       *)
(* behaviours shown, so the only build is the final one.                   *)
(***************************************************************************)
InitFinal ==
    /\ InitWith(FinalDocIds)
    /\ logFlaky = FALSE
    /\ zipFlaky = TRUE
    /\ ws = TRUE
    /\ cfgMinimalUI = FALSE

NextFinal ==
    \/ ConfigChange
    \/ \E p \in Paths : ExternalWrite(p)
    \/ \E d \in FinalDocIds : EditDoc(d)
    \/ StartOnce
    \/ \E i \in StartIds : StartLog(i)
    \/ \E i \in StartIds : StartLogRead(i)
    \/ \E i \in StartIds : StartLogWrite(i)
    \/ StopWorkMode
    \/ \E s \in StopIds : StopClear(s)
    \/ \E s \in StopIds : StopResume(s)
    \/ \E s \in StopIds : StopLog(s)
    \/ \E s \in StopIds : StopLogRead(s)
    \/ \E s \in StopIds : StopLogWrite(s)
    \/ \E b \in BuildIds : BuildMkdir(b)
    \/ \E b \in BuildIds : BuildStat(b)
    \/ \E b \in BuildIds : BuildRead(b)
    \/ \E b \in BuildIds : BuildWrite(b)
    \/ \E b \in BuildIds : BuildEnforce(b)
    \/ \E b \in BuildIds : BuildLog(b)
    \/ \E b \in BuildIds : BuildLogRead(b)
    \/ \E b \in BuildIds : BuildLogWrite(b)
    \/ PauseResume
    \/ OpenBackupsFolder

SpecFinal == InitFinal /\ [][NextFinal]_vars

(***************************************************************************)
(* The duration specification: a workspace folder is open and an untitled  *)
(* buffer with it, so that stop awaits a final build and writes its record; *)
(* the clock moves, and the session is paused, resumed and started again.  *)
(* The backup interval is longer than the behaviours shown.                *)
(***************************************************************************)
InitDuration ==
    /\ InitState
    /\ logFlaky = FALSE
    /\ zipFlaky = FALSE
    /\ ws = TRUE
    /\ docs["docU"].open = TRUE
    /\ cfgMinimalUI = FALSE

NextDuration ==
    \/ StartWorkMode
    \/ \E i \in StartIds : StartLog(i)
    \/ \E i \in StartIds : StartLogRead(i)
    \/ \E i \in StartIds : StartLogWrite(i)
    \/ StopWorkMode
    \/ \E s \in StopIds : StopResume(s)
    \/ \E s \in StopIds : StopLog(s)
    \/ \E s \in StopIds : StopLogRead(s)
    \/ \E s \in StopIds : StopLogWrite(s)
    \/ PauseResume
    \/ ClockAdvance
    \/ \E b \in BuildIds : BuildMkdir(b)
    \/ \E b \in BuildIds : BuildWrite(b)
    \/ \E b \in BuildIds : BuildEnforce(b)
    \/ \E b \in BuildIds : BuildLog(b)
    \/ \E b \in BuildIds : BuildLogRead(b)
    \/ \E b \in BuildIds : BuildLogWrite(b)
    \/ OpenBackupsFolder

SpecDuration == InitDuration /\ [][NextDuration]_vars

(***************************************************************************)
(* The function specification: one call of shouldExclude, of the unsaved   *)
(* content collector, or of the interval computation, on drawn arguments.  *)
(***************************************************************************)
FnPaths ==
    { <<"a", ".", "t", "s">>,
      <<"s", "r", "c", "/", "b", ".", "j", "s">>,
      <<"n", "o", "d", "e", "_", "m", "o", "d", "u", "l", "e", "s", "/", "x", ".", "j", "s">>,
      <<"a", "/", ".", "g", "i", "t", "/", "c">>,
      <<"d", "i", "s", "t", "/", "b", ".", "j", "s">>,
      <<".", "v", "s", "c", "o", "d", "e", "-", "w", "o", "r", "k", "-", "m", "o", "d", "e", "/", "l", "o", "g", "s">>,
      <<"s", "r", "c", "\\", "n", "o", "d", "e", "_", "m", "o", "d", "u", "l", "e", "s", "\\", "x">>,
      <<"d", "i", "s", "t">>,
      <<"m", "y", "d", "i", "s", "t", "/", "b">>,
      <<"b", "u", "i", "l", "d", "/", "x", ".", "t", "s">>,
      <<"s", "r", "c", "\\", "b", ".", "j", "s">> }

FnPatterns ==
    { <<>>,
      <<<<"*", ".", "t", "s">>>>,
      <<<<"*", "*", "/", "s", "r", "c">>>>,
      <<<<"b", "u", "i", "l", "d", "/", "*", "*">>>>,
      <<<<"*", "*", "/", "s", "r", "c", "/", "*", "*">>>>,
      <<<<"s", "r", "c">>>>,
      <<<<"/", "*", "*">>>>,
      <<<<"*", "*", "/", "*", ".", "j", "s">>>>,
      <<<<"*", ".", "j", "s">>, <<"*", "*", "/", "b">>>>,
      <<<<"*", ".", "t", "s", "/", "*", "*">>, <<"d", "i", "s", "t">>>> }

\* the values of cfg.get('backup.intervalSec'): <<v>> for a number, <<>> for undefined
IntervalChoices == { <<v>> : v \in (0 - 2)..12 \cup {59, 60, 61, 600} } \cup { <<>> }

MinIntervalSec == 10
DefaultIntervalSec == 60

Clamp_Mut(v) == v

\* Math.max(10, v)
Clamp(v) == IF v > MinIntervalSec THEN v ELSE MinIntervalSec

\* const intervalSec = Math.max(10, cfg.get('backup.intervalSec') ?? 60)
intervalSec(configured) == Clamp(IF configured = <<>> THEN DefaultIntervalSec ELSE configured[1])

InitFn ==
    /\ InitState
    /\ logFlaky = FALSE
    /\ zipFlaky = FALSE
    /\ ws = TRUE
    /\ docs["docU"].open = FALSE
    /\ cfgMinimalUI = FALSE

\* shouldExclude(relPath) under the configured patterns
CallShouldExclude ==
    /\ fnPc = "off"
    /\ \E relPath \in FnPaths, patterns \in FnPatterns :
         /\ fnArg' = <<relPath, patterns>>
         /\ fnResult' = shouldExclude(relPath, patterns)
    /\ fnPc' = "shouldExclude"
    /\ UNCHANGED <<envVars, sessionVars, backupTouched, fsVars, procVars, histVars, retVars, swVars, logVars>>

\* the collector loop of createIncrementalZipIfNeeded over the open documents
CallCollect ==
    /\ fnPc = "off"
    /\ \E dirty \in SUBSET SeqToSet(AllDocOrder), patterns \in ExcludeChoices :
         /\ fnArg' = <<dirty, patterns>>
         /\ fnResult' = CollectUnsaved(AllDocOrder,
                                       [d \in SeqToSet(AllDocOrder) |-> [open |-> TRUE, isDirty |-> d \in dirty]],
                                       patterns)
    /\ fnPc' = "collect"
    /\ UNCHANGED <<envVars, sessionVars, backupTouched, fsVars, procVars, histVars, retVars, swVars, logVars>>

\* startIncrementalBackups: the delay handed to setInterval, in seconds and in ms
CallIntervalSec ==
    /\ fnPc = "off"
    /\ \E configured \in IntervalChoices :
         /\ fnArg' = configured
         /\ fnResult' = [sec |-> intervalSec(configured), ms |-> intervalSec(configured) * 1000]
    /\ fnPc' = "intervalSec"
    /\ UNCHANGED <<envVars, sessionVars, backupTouched, fsVars, procVars, histVars, retVars, swVars, logVars>>

NextFn ==
    \/ CallShouldExclude
    \/ CallCollect
    \/ CallIntervalSec

SpecFunctions == InitFn /\ [][NextFn]_vars

(***************************************************************************)
(* The stopwatch specification: no workspace folder is open, so a session  *)
(* is its stopwatch only; the commands and the clock interleave freely.    *)
(***************************************************************************)
InitSw ==
    /\ InitState
    /\ logFlaky = FALSE
    /\ zipFlaky = FALSE
    /\ ws = FALSE
    /\ docs["docU"].open = FALSE
    /\ cfgMinimalUI = FALSE

NextSw ==
    \/ StartWorkMode
    \/ StopWorkMode
    \/ ToggleWorkMode
    \/ \E s \in StopIds : StopClear(s)
    \/ \E s \in StopIds : StopResume(s)
    \/ PauseResume
    \/ ClockAdvance
    \/ OpenBackupsFolder

SpecStopwatch == InitSw /\ [][NextSw]_vars

(***************************************************************************)
(* Properties of the change tracker and the archive builder.               *)
(***************************************************************************)
Returns(b) == builds[b].pc # "done" /\ builds'[b].pc = "done"

Begins(b) == builds[b].pc = "idle" /\ builds'[b].pc # "idle"

UnsavedPaths(rec) == {rec.unsaved[i].zipPath : i \in 1..Len(rec.unsaved)}

\* C1: no path is lost between being read for packaging and being cleared: a path
\* leaves the ChangeSet only after some build has read it into its fromDisk list.
C1_NoPathLost ==
    [][\A p \in backupTouched \ backupTouched' : p \notin unread]_vars

\* C2, as claimed: a build that found something to package and returns without a
\* write failure leaves the ChangeSet empty, also when all tracked files were skipped.
C2_ClearedAfterEveryAttempt ==
    [][\A b \in BuildIds :
         (Returns(b) /\ builds'[b].outcome \in {"saved", "empty"}) => backupTouched' = {}]_vars

\* C2, amended: a build that persisted its archive leaves the ChangeSet empty when
\* it returns, also when it skipped some tracked files; a timer-triggered build
\* whose candidates were all skipped returns with the ChangeSet as it was.
C2_ClearedAfterSave ==
    [][\A b \in BuildIds :
         /\ (Returns(b) /\ builds'[b].outcome = "saved") => backupTouched' = {}
         /\ (Returns(b) /\ builds'[b].outcome = "empty" /\ builds[b].trigger = "timer")
               => backupTouched' = backupTouched]_vars

C2_Witness ==
    \E b \in BuildIds :
        /\ builds[b].outcome = "saved"
        /\ builds[b].trigger = "timer"
        /\ builds[b].skipped \cup builds[b].unreadable # {}
        /\ backupTouched = {}

\* C3: when a path is both in the ChangeSet and the path of a dirty document, the
\* archive's entry for it holds the document's in-memory text, once.
C3_MemoryWins ==
    \A b \in BuildIds :
        Wrote(builds[b]) =>
            \A i \in 1..Len(builds[b].unsaved) :
                builds[b].unsaved[i].zipPath \in builds[b].fromDisk =>
                    /\ ZipData(builds[b].zip, builds[b].unsaved[i].zipPath) = {builds[b].unsaved[i].content}
                    /\ Cardinality({j \in 1..Len(builds[b].zip) :
                                      builds[b].zip[j].entryName = builds[b].unsaved[i].zipPath}) = 1

\* C4: once stopWorkMode has begun, no timer-triggered build starts until a later
\* start: a timer fires only while the session runs or a start is under way.
C4_NoTimerBuildAfterStop ==
    [][\A b \in BuildIds :
         (Begins(b) /\ builds'[b].trigger = "timer") =>
             (running \/ \E i \in StartIds : starts[i].pc = "ui")]_vars

FinalBuild(s) == builds[stops[s].build]

\* C5, as claimed: when stopWorkMode has returned, every path that was in the
\* ChangeSet when the stop began and whose file existed, was regular and was not
\* excluded, and every document dirty or untitled at that moment, is in the archive
\* of the final build.
C5_FinalBuildArchivesAll ==
    \A s \in StopIds :
        (ws /\ stops[s].pc = "done" /\ stops[s].build # 0) =>
            /\ \A p \in stops[s].touched0 \ FinalBuild(s).skipped :
                  FinalBuild(s).outcome = "saved" /\ p \in ZipNames(FinalBuild(s).zip)
            /\ \A d \in FinalBuild(s).dirtyDocs :
                  FinalBuild(s).outcome = "saved" /\ EntryOfDoc(d) \in ZipNames(FinalBuild(s).zip)

\* C5, amended: when stopWorkMode has returned, every path that was in the
\* ChangeSet when the stop began and that the final build found existing, regular and
\* not excluded, and read and added without a failure, and every document that at
\* that moment was untitled, or dirty with a workspace-relative path that does not
\* begin with '..' and matches no exclusion, and whose in-memory entry zip.addFile
\* accepted, is in the archive the final build has written.
C5_FinalBuildArchives ==
    \A s \in StopIds :
        (ws /\ stops[s].pc = "done" /\ stops[s].build # 0) =>
            /\ \A p \in stops[s].touched0 \ (FinalBuild(s).skipped \cup FinalBuild(s).unreadable) :
                  FinalBuild(s).outcome = "saved" /\ p \in ZipNames(FinalBuild(s).zip)
            /\ \A d \in FinalBuild(s).eligible :
                  EntryOfDoc(d) \notin FinalBuild(s).addFailed =>
                      FinalBuild(s).outcome = "saved" /\ EntryOfDoc(d) \in ZipNames(FinalBuild(s).zip)

\* a stop has returned whose final build wrote an archive with a tracked file and
\* with the in-memory text of a document, beside a dirty document it left out
C5_Witness ==
    \E s \in StopIds :
        /\ ws /\ stops[s].pc = "done" /\ stops[s].build # 0
        /\ FinalBuild(s).outcome = "saved"
        /\ stops[s].touched0 \ (FinalBuild(s).skipped \cup FinalBuild(s).unreadable) # {}
        /\ \E d \in FinalBuild(s).eligible :
              /\ EntryOfDoc(d) \notin FinalBuild(s).addFailed
              /\ EntryOfDoc(d) \in ZipNames(FinalBuild(s).zip)
        /\ FinalBuild(s).dirtyDocs \ FinalBuild(s).eligible # {}

\* the cases the amended statement leaves out are met, each with a stop that has
\* returned: a dirty document that an exclusion matches is in no archive
C5_ExcludedLeftOut ==
    \E s \in StopIds :
        /\ ws /\ stops[s].pc = "done" /\ stops[s].build # 0
        /\ \E d \in FinalBuild(s).dirtyDocs \ FinalBuild(s).eligible :
              /\ ~StartsWith(DocRel(d), <<".", ".">>)
              /\ \A n \in DOMAIN archives : EntryOfDoc(d) \notin ZipNames(archives[n])

\* a dirty document whose relative path begins with '..' is in no archive
C5_DotsLeftOut ==
    \E s \in StopIds :
        /\ ws /\ stops[s].pc = "done" /\ stops[s].build # 0
        /\ \E d \in FinalBuild(s).dirtyDocs \ FinalBuild(s).eligible :
              /\ StartsWith(DocRel(d), <<".", ".">>)
              /\ \A n \in DOMAIN archives : EntryOfDoc(d) \notin ZipNames(archives[n])

\* a collected document whose zip.addFile threw is not in the archive that was written
C5_AddFailedLeftOut ==
    \E s \in StopIds :
        /\ ws /\ stops[s].pc = "done" /\ stops[s].build # 0
        /\ \E d \in FinalBuild(s).eligible :
              /\ FinalBuild(s).outcome = "saved"
              /\ EntryOfDoc(d) \in FinalBuild(s).addFailed
              /\ \A n \in DOMAIN archives : EntryOfDoc(d) \notin ZipNames(archives[n])

\* a tracked file whose read failed is not in the archive that was written
C5_UnreadableLeftOut ==
    \E s \in StopIds :
        /\ ws /\ stops[s].pc = "done" /\ stops[s].build # 0
        /\ \E p \in stops[s].touched0 \cap FinalBuild(s).unreadable :
              /\ FinalBuild(s).outcome = "saved"
              /\ \A n \in DOMAIN archives : p \notin ZipNames(archives[n])

\* C6: no empty archive is written: every archive on disk has at least one entry,
\* every backup log record counts at least one file, a tracked path that the build
\* skipped is in the archive only as a document's in-memory entry, and a build whose
\* candidates were all skipped ends with neither archive nor record.
C6_NoEmptyArchive ==
    /\ \A n \in DOMAIN archives : Len(archives[n]) >= 1
    /\ \A i \in 1..Len(backupsLog) : backupsLog[i].files >= 1
    /\ \A b \in BuildIds :
          /\ \A p \in builds[b].skipped \cup builds[b].unreadable :
                p \in ZipNames(builds[b].zip) => p \in UnsavedPaths(builds[b])
          /\ (/\ builds[b].pc \in {"write", "enforce", "delete", "log", "logread", "logwrite", "done"}
              /\ builds[b].outcome \notin {"noop", "nows", "mkdir_failed"}
              /\ builds[b].unsaved = <<>>
              /\ builds[b].fromDisk = builds[b].skipped \cup builds[b].unreadable)
                => builds[b].outcome = "empty"

C6_Witness ==
    \E b \in BuildIds :
        /\ builds[b].outcome = "empty"
        /\ builds[b].skipped # {}
        /\ archives = <<>>
        /\ backupsLog = <<>>

\* C7: with the ChangeSet S and the dirty file-backed documents D disjoint, every
\* file of S existing, regular and readable, nothing excluded and no untitled
\* document open, the archive of a build holds exactly the paths of S and D, each
\* once: the in-memory text for D and the bytes read from disk for S.
C7_ArchiveIsUnion ==
    \A b \in BuildIds :
        (/\ Wrote(builds[b])
         /\ builds[b].skipped \cup builds[b].unreadable = {}
         /\ builds[b].eligible = builds[b].dirtyDocs
         /\ \A d \in builds[b].dirtyDocs : DocScheme(d) = "file" /\ EntryOfDoc(d) \notin builds[b].fromDisk)
            => /\ ZipNames(builds[b].zip) =
                     builds[b].fromDisk \cup {EntryOfDoc(d) : d \in builds[b].dirtyDocs}
               /\ Len(builds[b].zip) =
                     Cardinality(builds[b].fromDisk) + Cardinality(builds[b].dirtyDocs)
               /\ \A d \in builds[b].dirtyDocs :
                     ZipData(builds[b].zip, EntryOfDoc(d)) = {DocText(d)}
               /\ \A p \in builds[b].fromDisk :
                     \E c \in DiskStates :
                         <<p, c>> \in builds[b].diskRead /\ ZipData(builds[b].zip, p) = {c}

C7_Witness ==
    \E b \in BuildIds :
        /\ builds[b].outcome = "saved"
        /\ builds[b].skipped \cup builds[b].unreadable = {}
        /\ builds[b].eligible = builds[b].dirtyDocs
        /\ builds[b].fromDisk # {}
        /\ builds[b].dirtyDocs # {}
        /\ \A d \in builds[b].dirtyDocs : DocScheme(d) = "file" /\ EntryOfDoc(d) \notin builds[b].fromDisk

\* C8: a build that starts with an empty ChangeSet and no dirty or untitled document
\* returns at once and changes nothing: no directory, archive or log record, the
\* ChangeSet as it was, and for a timer tick the session state as it was.
C8_NoOpBuild ==
    [][\A b \in BuildIds :
         (Begins(b) /\ ws /\ backupTouched = {} /\ DirtyOrUntitled(docs) = {}) =>
             /\ builds'[b].pc = "done"
             /\ UNCHANGED fsVars
             /\ backupTouched' = backupTouched
             /\ builds'[b].trigger = "timer" => UNCHANGED <<sessionVars, starts, stops>>]_vars

C8_Witness ==
    \E b \in BuildIds :
        /\ builds[b].outcome = "noop"
        /\ builds[b].trigger = "timer"
        /\ builds[b].fromDisk = {}
        /\ builds[b].dirtyDocs = {}

\* C9, as claimed: an archive holds only files touched since the last successful
\* archive: no build archives a document that an earlier archive of the session
\* holds and that was not edited since.
C9_OnlyTouchedSinceLast ==
    \A b \in BuildIds :
        Wrote(builds[b]) =>
            \A d \in builds[b].stale : EntryOfDoc(d) \notin UnsavedPaths(builds[b])

\* C9, amended: every entry of an archive is a path that was in the ChangeSet when
\* the build read it, or a document that was dirty or untitled at that moment.
C9_OnlyTrackedOrUnsaved ==
    \A b \in BuildIds :
        Wrote(builds[b]) =>
            ZipNames(builds[b].zip) \subseteq
                builds[b].fromDisk \cup {EntryOfDoc(d) : d \in builds[b].dirtyDocs}

C9_Witness ==
    \E b \in BuildIds :
        /\ builds[b].outcome = "saved"
        /\ \E d \in builds[b].stale : EntryOfDoc(d) \in ZipNames(builds[b].zip)

ZipFiles0 == {e.name : e \in {x \in retDir0 : x.type = "file" /\ EndsWith(x.name, ZipSuffix)}}

KeptCount == IF Cardinality(ZipFiles0) < retMax THEN Cardinality(ZipFiles0) ELSE retMax

\* C10: enforceBackupLimit without I/O failure on a directory with n archive files
\* and maxItems m deletes exactly the max(0, n - m) archive files with the smallest
\* names and nothing else, and leaves min(n, m) archives.
C10_Retention ==
    retPc = "done" =>
        /\ Len(retDeleted) = Cardinality(ZipFiles0) - KeptCount
        /\ Cardinality(SeqToSet(retDeleted)) = Len(retDeleted)
        /\ SeqToSet(retDeleted) \subseteq ZipFiles0
        /\ \A d \in SeqToSet(retDeleted) : \A z \in ZipFiles0 \ SeqToSet(retDeleted) : StrLess(d, z)
        /\ retDir = {e \in retDir0 : e.name \notin SeqToSet(retDeleted)}
        /\ Cardinality({e \in retDir : e.type = "file" /\ EndsWith(e.name, ZipSuffix)}) = KeptCount

C10_Witness ==
    /\ retPc = "done"
    /\ Len(retDeleted) >= 2
    /\ retMax >= 1
    /\ \E e \in retDir0 : e.type = "dir"
    /\ \E e \in retDir0 : e.type = "file" /\ ~EndsWith(e.name, ZipSuffix)

\* C13: in every reachable state of the session controller paused implies running.
C13_PausedImpliesRunning == paused => running

C13_Witness ==
    /\ ~running
    /\ ~paused
    /\ pauseStartMs # 0
    /\ \E s \in StopIds : stops[s].pc = "done"

\* C14: pause time does not advance elapsed time: in a running session elapsedMs()
\* is the time since the start minus the time spent paused, it stays the same while
\* the session is paused, and a pause or a resume does not change it.
C14_ElapsedExcludesPause ==
    /\ [](running => elapsedMs = (DateNow - startMs) - pausedTotal)
    /\ [][(running /\ paused /\ running' /\ paused') => elapsedMs' = elapsedMs]_vars
    /\ [][(running /\ running' /\ paused # paused') => elapsedMs' = elapsedMs]_vars

C14_Witness ==
    /\ running
    /\ ~paused
    /\ pausedTotal >= 2
    /\ elapsedMs >= 1
    /\ pausedAccum = pausedTotal

NoReadFailure == \A a \in DOMAIN appends : ~appends[a].readFailed

\* C11: log records are append-only: a line that is in a log file is in it,
\* unchanged and at its place, after every step of every interleaving of appends
\* (here: of appends whose read of the file did not fail).
C11_AppendOnly ==
    [][NoReadFailure' =>
         \A f \in DOMAIN jsonl :
             /\ f \in DOMAIN jsonl'
             /\ Len(Lines(jsonl[f])) <= Len(Lines(jsonl'[f]))
             /\ \A i \in 1..Len(Lines(jsonl[f])) : Lines(jsonl'[f])[i] = Lines(jsonl[f])[i]]_vars

\* C12: appending R1 and, after that call has completed, R2 to an empty or missing
\* log file, without an I/O failure, yields exactly two newline-terminated lines:
\* the JSON of R1, then the JSON of R2.
C12_RoundTrip ==
    \A f \in LogFiles :
        LET calls == SelectSeq(appends, LAMBDA c : c.file = f)
        IN  (/\ Len(calls) = 2
             /\ calls[1].pc = "done" /\ calls[2].pc = "done"
             /\ calls[1].prev = <<>> /\ calls[2].prev # <<>>
             /\ \A i \in 1..2 : ~calls[i].failed /\ ~calls[i].readFailed)
                => /\ f \in DOMAIN jsonl
                   /\ Lines(jsonl[f]) = <<Stringify(calls[1].obj), Stringify(calls[2].obj)>>
                   /\ jsonl[f][Len(jsonl[f])] = NL
                   /\ Len(jsonl[f]) = Len(Stringify(calls[1].obj)) + Len(Stringify(calls[2].obj)) + 2

\* two calls of appendBackupLog, one after the other, have written two different
\* records to backups.jsonl
TwoBackupRecords ==
    /\ "backups.jsonl" \in DOMAIN jsonl
    /\ Len(appends) = 2
    /\ \A i \in 1..2 : /\ appends[i].pc = "done" /\ appends[i].file = "backups.jsonl"
                       /\ ~appends[i].failed /\ ~appends[i].readFailed
    /\ appends[1].prev = <<>>
    /\ appends[2].prev # <<>>
    /\ appends[1].obj # appends[2].obj
    /\ Len(Lines(jsonl["backups.jsonl"])) = 2

\* the empty file: the first call read a file that was there and held nothing
C12_Witness == TwoBackupRecords /\ appends[1].found

\* the missing file: the first call's readFile threw, and its writeFile made the file
C12_MissingFile == TwoBackupRecords /\ ~appends[1].found

LogPcs == {"log", "logread", "logwrite"}

\* C16: a log-write failure never blocks a session-state transition or a build:
\* whatever the I/O of the log writer's three awaits does, a caller in appendBackupLog
\* or appendSessionLog stays in it or leaves it normally; the step that ends
\* appendBackupLog ends the build with the ChangeSet cleared, and the step that ends
\* appendSessionLog ends startWorkMode or stopWorkMode and leaves the running flag,
\* the timer and the watcher as the transition set them.
C16_LogFailureSwallowed ==
    [][/\ \A b \in BuildIds :
            (builds[b].pc \in LogPcs /\ builds'[b].pc \notin LogPcs) =>
                /\ builds'[b].pc = "done" /\ builds'[b].outcome = "saved"
                /\ backupTouched' = {}
                /\ builds[b].trigger = "stop" => stops'[builds[b].stop].pc = "ui"
       /\ \A i \in StartIds :
            (starts[i].pc \in LogPcs /\ starts'[i].pc \notin LogPcs) =>
                starts'[i].pc = "done" /\ UNCHANGED sessionVars
       /\ \A s \in StopIds :
            (stops[s].pc \in LogPcs /\ stops'[s].pc \notin LogPcs) =>
                stops'[s].pc = "done" /\ UNCHANGED sessionVars]_vars

C16_Witness ==
    /\ sessionsLog = <<>>
    /\ backupsLog = <<>>
    /\ \E i \in StartIds : starts[i].pc = "done"
    /\ \E s \in StopIds :
          /\ stops[s].pc = "done"
          /\ FinalBuild(s).outcome = "saved"
    /\ ~running /\ backupTimer = 0 /\ backupWatcher = 0
    /\ backupTouched = {}

WriteFails(b) ==
    /\ Returns(b)
    /\ builds'[b].outcome = "write_failed"
    /\ builds[b].trigger = "timer"

\* C15, as claimed: when writing the archive fails in a timer-triggered build, no
\* log record is appended, no archive is deleted, and the ChangeSet still holds
\* every path it held when the build read it.
C15_PathsKeptAfterWriteFailure ==
    [][\A b \in BuildIds :
         WriteFails(b) =>
             /\ UNCHANGED <<archives, backupsLog>>
             /\ builds[b].fromDisk \subseteq backupTouched']_vars

\* C15, amended: when writing the archive fails in a timer-triggered build, no log
\* record is appended, no archive is deleted and the failing build removes nothing
\* from the ChangeSet; the ChangeSet still holds every path the build read when no
\* other build and no stop ran beside it.
C15_WriteFailureClearsNothing ==
    [][\A b \in BuildIds :
         WriteFails(b) =>
             /\ UNCHANGED <<archives, backupsLog, backupTouched>>
             /\ ((\A c \in BuildIds \ {b} : builds[c].pc = "idle") /\ (\A s \in StopIds : stops[s].pc = "idle"))
                   => builds[b].fromDisk \subseteq backupTouched']_vars

C15_Witness ==
    /\ builds[1].outcome = "write_failed"
    /\ builds[1].trigger = "timer"
    /\ builds[1].fromDisk # {}
    /\ archives = <<>>
    /\ backupsLog = <<>>
    /\ builds[2].trigger = "timer"
    /\ builds[2].pc = "mkdir"
    /\ builds[1].fromDisk \subseteq builds[2].fromDisk

FixedSegments ==
    { <<"n", "o", "d", "e", "_", "m", "o", "d", "u", "l", "e", "s", "/">>,
      <<".", "g", "i", "t", "/">>,
      <<"d", "i", "s", "t", "/">>,
      <<".", "v", "s", "c", "o", "d", "e", "-", "w", "o", "r", "k", "-", "m", "o", "d", "e", "/">> }

HasFixedSegment(p) == \E q \in FixedSegments : Includes(p, q)

\* C17: every path that contains node_modules/, .git/, dist/ or .vscode-work-mode/
\* as a substring is excluded, for every list of user patterns, the empty list
\* included.
C17_FixedSegmentsExcluded ==
    (fnPc = "shouldExclude" /\ HasFixedSegment(fnArg[1])) => fnResult = TRUE

C17_Witness ==
    /\ fnPc = "shouldExclude"
    /\ fnArg = << <<"a", "/", ".", "g", "i", "t", "/", "c">>, <<>> >>
    /\ fnResult = TRUE

\* the rules of C18 for one pattern, in the claimed order
RuleMatches(glob, p) ==
    LET n == Len(glob)
        endsDir == n >= 3 /\ SubSeq(glob, n - 2, n) = <<"/", "*", "*">>
        startsDir == n >= 3 /\ SubSeq(glob, 1, 3) = <<"*", "*", "/">>
        startsExt == n >= 2 /\ SubSeq(glob, 1, 2) = <<"*", ".">>
        noSuffix == SubSeq(glob, 1, n - 3)
        inner == IF Len(noSuffix) >= 3 /\ SubSeq(noSuffix, 1, 3) = <<"*", "*", "/">>
                 THEN SubSeq(noSuffix, 4, Len(noSuffix))
                 ELSE noSuffix
    IN  IF endsDir THEN Includes(p, inner)
        ELSE IF startsDir THEN Includes(p, SubSeq(glob, 4, n))
        ELSE IF startsExt THEN EndsWith(p, SubSeq(glob, 2, n))
        ELSE FALSE

\* C18: for a path with no fixed segment (separators normalized to forward
\* slashes, as shouldExclude does first), the result is true exactly when some user
\* pattern matches by the three rules, tested in order per pattern; a pattern of any
\* other shape never matches.
C18_UserPatternsDecide ==
    (fnPc = "shouldExclude" /\ ~HasFixedSegment(ToPosix(fnArg[1]))) =>
        (fnResult <=> \E i \in 1..Len(fnArg[2]) : RuleMatches(fnArg[2][i], ToPosix(fnArg[1])))

C18_Witness ==
    /\ fnPc = "shouldExclude"
    /\ fnArg = << <<"s", "r", "c", "\\", "b", ".", "j", "s">>, << <<"*", "*", "/", "s", "r", "c", "/", "*", "*">> >> >>
    /\ fnResult = TRUE

\* the entries C19 claims for one document
ClaimedEntries(d, dirty, patterns) ==
    IF DocScheme(d) = "untitled"
    THEN LET base == IF DocFileName(d) = <<>> THEN <<"u", "n", "t", "i", "t", "l", "e", "d", ".", "t", "x", "t">> ELSE DocFileName(d)
         IN  << [zipPath |-> <<"U", "N", "S", "A", "V", "E", "D", "/">> \o base, content |-> DocText(d)] >>
    ELSE IF /\ DocScheme(d) = "file"
            /\ d \in dirty
            /\ DocInside(d)
            /\ ~shouldExclude(DocRel(d), patterns)
         THEN << [zipPath |-> ToPosix(DocRel(d)), content |-> DocText(d)] >>
         ELSE <<>>

RECURSIVE ClaimedCollection(_, _, _)
ClaimedCollection(order, dirty, patterns) ==
    IF order = <<>> THEN <<>>
    ELSE ClaimedEntries(Head(order), dirty, patterns) \o ClaimedCollection(Tail(order), dirty, patterns)

\* C19, as claimed: the collector yields one entry at its workspace-relative path
\* for every dirty file-backed document that lies inside the workspace and is not
\* excluded, one entry at UNSAVED/<basename> for every untitled document, dirty or
\* not and without exclusion filtering, and nothing else.
C19_CollectsExactly ==
    fnPc = "collect" => fnResult = ClaimedCollection(AllDocOrder, fnArg[1], fnArg[2])

\* C20: the period of the backup timer is max(10, backup.intervalSec) seconds for
\* every configured integer, zero and negative values included, 60 seconds when
\* the option is unset, and never below 10 seconds.
C20_PeriodClamped ==
    fnPc = "intervalSec" =>
        LET claimed == IF fnArg = <<>> THEN 60
                       ELSE IF fnArg[1] >= 10 THEN fnArg[1] ELSE 10
        IN  /\ fnResult.sec = claimed
            /\ fnResult.sec >= 10
            /\ fnResult.ms = claimed * 1000

C20_Witness ==
    /\ fnPc = "intervalSec"
    /\ fnArg = << 0 - 2 >>
    /\ fnResult.sec = 10
    /\ fnResult.ms = 10000

(***************************************************************************)
(* Properties of overlapping builds, of stop, and of the order of a build. *)
(***************************************************************************)
Overlaps(b) == \E c \in BuildIds \ {b} : InFlight(builds[c])

\* C21: nothing serializes builds.  A build can begin while another is in flight,
\* and it then reads the whole ChangeSet, the paths the other build has read
\* included, so that the same tracked path is packaged into two archives; and a
\* build that saves while another is in flight empties the ChangeSet whatever the
\* other has read and not yet written, so that a path is cleared without being packaged.
C21_BuildsOverlap ==
    [][\A b \in BuildIds :
         /\ (Begins(b) /\ ws /\ Overlaps(b)) =>
               /\ builds'[b].fromDisk = backupTouched
               /\ \A c \in BuildIds \ {b} :
                     InFlight(builds[c]) => builds[c].fromDisk \cap backupTouched \subseteq builds'[b].fromDisk
         /\ (Returns(b) /\ Overlaps(b) /\ builds'[b].outcome = "saved") => backupTouched' = {}]_vars

\* two builds in flight together, a timer build and the final build of a stop,
\* have each written an archive, and both archives hold the tracked path a.ts
C21_Witness ==
    /\ builds[1].trigger = "timer" /\ builds[2].trigger = "stop"
    /\ InFlight(builds[1]) /\ Wrote(builds[1])
    /\ InFlight(builds[2]) /\ Wrote(builds[2])
    /\ builds[1].zipName # builds[2].zipName
    /\ {builds[1].zipName, builds[2].zipName} \subseteq DOMAIN archives
    /\ PathA \in builds[1].fromDisk \cap builds[2].fromDisk
    /\ PathA \in ZipNames(archives[builds[1].zipName]) \cap ZipNames(archives[builds[2].zipName])

\* a path that a build had read is in no archive and no longer in the ChangeSet:
\* another build saved and cleared it while the first was in flight, and the first
\* build's write failed
C21_Dropped ==
    \E b, c \in BuildIds :
        /\ b # c
        /\ builds[b].outcome = "saved"
        /\ builds[c].outcome = "write_failed"
        /\ builds[b].trigger = "timer" /\ builds[c].trigger = "timer"
        /\ backupTouched = {}
        /\ \E p \in builds[c].fromDisk :
              /\ p \notin builds[b].fromDisk
              /\ \A n \in DOMAIN archives : p \notin ZipNames(archives[n])

Finishes(s) == stops[s].pc \notin {"idle", "done", "failed"} /\ stops'[s].pc \in {"done", "failed"}

\* C22: the ChangeSet is cleared on session stop: when stopWorkMode finishes, by
\* returning or by failing, with no new session begun meanwhile, the ChangeSet is
\* empty, also when the final build failed to create the backups directory or to
\* write the archive; and the ChangeSet is empty when the next session starts.
C22_ClearedOnStop ==
    [][/\ \A s \in StopIds : (Finishes(s) /\ ~running') => backupTouched' = {}
       /\ (~running /\ running' /\ \E s \in StopIds : stops[s].pc \in {"done", "failed"})
             => backupTouched = {}]_vars

EnforcePcs == {"enforce", "delete"}

\* C23: a build that persists an archive writes the archive file, then enforces
\* retention, then appends the backups.jsonl record with the archive's name and
\* its entry count to what it read of the file, then clears the ChangeSet; whether
\* retention failed or not, the build goes on to the record and the clear, and no
\* step is taken out of order.
C23_BuildOrder ==
    [][\A b \in BuildIds :
         /\ (builds[b].pc = "write" /\ builds'[b].pc # "write") =>
               \/ /\ builds'[b].pc = "enforce"
                  /\ builds[b].zipName \in DOMAIN archives'
                  /\ archives'[builds[b].zipName] = builds[b].zip
                  /\ UNCHANGED <<backupsLog, backupTouched>>
               \/ /\ builds'[b].outcome = "write_failed"
                  /\ UNCHANGED <<archives, backupsLog, backupTouched>>
         /\ (builds[b].pc \in EnforcePcs /\ (builds'[b].pc # builds[b].pc \/ builds'[b].oldest # builds[b].oldest)) =>
               /\ builds'[b].pc \in {"delete", "log"}
               /\ DOMAIN archives' \subseteq DOMAIN archives
               /\ UNCHANGED <<backupsLog, backupTouched>>
         /\ (builds[b].pc \in {"log", "logread"} /\ builds'[b].pc # builds[b].pc) =>
               /\ builds'[b].pc = (IF builds[b].pc = "log" THEN "logread" ELSE "logwrite")
               /\ UNCHANGED <<archives, backupsLog, backupTouched>>
         /\ (builds[b].pc = "logwrite" /\ builds'[b].pc # "logwrite") =>
               /\ builds'[b].outcome = "saved"
               /\ backupsLog' = Append(builds[b].prev, [zip |-> builds[b].zipName, files |-> Len(builds[b].zip)])
               /\ backupTouched' = {}
               /\ UNCHANGED archives
         /\ (builds[b].pc # "enforce" /\ builds'[b].pc = "enforce") => builds[b].pc = "write"
         /\ (builds[b].pc # "delete" /\ builds'[b].pc = "delete") => builds[b].pc = "enforce"
         /\ (builds[b].pc # "log" /\ builds'[b].pc = "log") => builds[b].pc \in EnforcePcs
         /\ (builds[b].pc # "logread" /\ builds'[b].pc = "logread") => builds[b].pc = "log"
         /\ (builds[b].pc # "logwrite" /\ builds'[b].pc = "logwrite") => builds[b].pc = "logread"
         /\ (builds[b].outcome # "saved" /\ builds'[b].outcome = "saved") => builds[b].pc = "logwrite"]_vars

\* both builds saved, and retention (maxItems 1) failed for the later one: two
\* archives are left, both are recorded and the ChangeSet is clear
C23_Witness ==
    /\ \A b \in BuildIds : builds[b].outcome = "saved"
    /\ cfgMaxItems = 1
    /\ Cardinality(DOMAIN archives) = 2
    /\ Len(backupsLog) = 2
    /\ \A i \in 1..2 : backupsLog[i].zip \in DOMAIN archives /\ backupsLog[i].files = Len(archives[backupsLog[i].zip])
    /\ backupTouched = {}

\* C24: a failure on one file while packaging (stat or read of one tracked path,
\* addFile of one unsaved entry) is swallowed for that file: the build goes on and
\* throws nothing, and the archive it persists holds every other tracked path that
\* was a regular, readable file and not excluded, and every other unsaved entry.
C24_PerFileFailureSwallowed ==
    /\ [](\A b \in BuildIds :
            Wrote(builds[b]) =>
               /\ builds[b].fromDisk \ (builds[b].skipped \cup builds[b].unreadable) \subseteq ZipNames(builds[b].zip)
               /\ UnsavedPaths(builds[b]) \ builds[b].addFailed \subseteq ZipNames(builds[b].zip))
    /\ [][\A b \in BuildIds :
            /\ (builds[b].pc \in {"stat", "read"} /\ (builds'[b].pc # builds[b].pc \/ builds'[b].todo # builds[b].todo)) =>
                  /\ \/ builds'[b].pc \in {"stat", "read", "write"}
                     \/ builds'[b].pc = "done" /\ builds'[b].outcome = "empty"
                  /\ builds[b].trigger = "stop" => stops'[builds[b].stop].pc # "failed"
            /\ (builds[b].pc = "mkdir" /\ builds'[b].addFailed # {}) =>
                  \/ builds'[b].pc \in {"stat", "write"}
                  \/ builds'[b].pc = "done" /\ builds'[b].outcome = "empty"]_vars

C24_Witness ==
    \E b \in BuildIds :
        /\ builds[b].outcome = "saved"
        /\ builds[b].unreadable # {}
        /\ builds[b].addFailed # {}
        /\ builds[b].fromDisk \ (builds[b].skipped \cup builds[b].unreadable) # {}
        /\ builds[b].zipName \in DOMAIN archives
        /\ archives[builds[b].zipName] = builds[b].zip

\* C25: the durationMs of a stop record is the elapsed time of the session it ends
\* as of the stop request, all paused intervals excluded (the time the stop itself
\* spends in its awaits before it makes the record is allowed for), also when the
\* stop is requested during a pause and when a new start is issued during the stop.
C25_DurationIsNetElapsed ==
    \A s \in StopIds :
        stops[s].pc \in {"log", "done"} =>
            /\ stops[s].durationMs >= stops[s].netElapsed0
            /\ stops[s].durationMs <= stops[s].netElapsed0 + stops[s].waited

\* C26: at most one backup interval, one file system watcher and one set of
\* document subscriptions is live at any time, and none is live while no session
\* is running, for every interleaving of start, stop and toggle.
C26_OneTimerOneWatcher ==
    /\ Cardinality(liveTimers) <= 1
    /\ Cardinality(liveWatchers) <= 1
    /\ Cardinality(disposables) <= 1
    /\ ~running => liveTimers = {} /\ liveWatchers = {} /\ disposables = {}

\* what C27 calls excluded: a fixed segment in the path, or a user pattern that
\* matches it
ClaimExcluded(path, patterns) ==
    \/ HasFixedSegment(path)
    \/ \E i \in 1..Len(patterns) : RuleMatches(patterns[i], path)

FilePaths(entries) == {entries[i].zipPath : i \in {j \in 1..Len(entries) : ~StartsWith(entries[j].zipPath, <<"U", "N", "S", "A", "V", "E", "D", "/">>)}}

\* C27: no archive holds an entry whose path contains node_modules/, .git/, dist/
\* or .vscode-work-mode/; a file-backed document's entry matched no user pattern
\* in force when the build collected it, and a tracked file's entry none in force
\* when the build tested it, before it read the file, also when the patterns
\* changed after the path was tracked; an entry enters an archive at these two
\* places only.
C27_NothingExcludedArchived ==
    /\ [](/\ \A b \in BuildIds : \A n \in ZipNames(builds[b].zip) : ~HasFixedSegment(n)
          /\ \A a \in DOMAIN archives : \A n \in ZipNames(archives[a]) : ~HasFixedSegment(n))
    /\ [][\A b \in BuildIds :
            /\ Begins(b) =>
                  \A n \in FilePaths(builds'[b].unsaved) : ~ClaimExcluded(n, cfgExcludes)
            /\ builds[b].pc = "mkdir" =>
                  ZipNames(builds'[b].zip) \subseteq UnsavedPaths(builds[b])
            /\ builds[b].pc = "stat" =>
                  /\ builds'[b].zip = builds[b].zip
                  /\ builds'[b].pc = "read" =>
                        /\ builds'[b].rel \in builds[b].todo
                        /\ ~ClaimExcluded(builds'[b].rel, cfgExcludes)
            /\ builds[b].pc = "read" =>
                  ZipNames(builds'[b].zip) \ ZipNames(builds[b].zip) \subseteq {builds[b].rel}
            /\ builds[b].pc \notin {"mkdir", "read"} =>
                  ZipNames(builds'[b].zip) \subseteq ZipNames(builds[b].zip)]_vars

\* a.ts was tracked, the user then excluded *.ts, and the build saved its archive
\* without a.ts
C27_Witness ==
    \E b \in BuildIds :
        /\ builds[b].outcome = "saved"
        /\ cfgExcludes = TsExcluded
        /\ PathA \in builds[b].fromDisk
        /\ PathA \in builds[b].skipped
        /\ IsFileContent(disk[PathA])
        /\ PathA \notin ZipNames(builds[b].zip)
        /\ builds[b].zipName \in DOMAIN archives
        /\ archives[builds[b].zipName] = builds[b].zip

\* .git/index was written during the session beside a.ts, and the build saved its
\* archive with a.ts and without .git/index
C27_GitLeftOut ==
    \E b \in BuildIds :
        /\ builds[b].outcome = "saved"
        /\ disk[PathGit] = "old"
        /\ builds[b].fromDisk = {PathA}
        /\ PathA \in ZipNames(builds[b].zip)
        /\ PathGit \notin ZipNames(builds[b].zip)

\* the user excluded *.ts after the build had tested a.ts and before it had read
\* the file: the archive holds a.ts
C27_ExcludedWhileReading ==
    \E b \in BuildIds :
        /\ builds[b].outcome = "saved"
        /\ cfgExcludes = TsExcluded
        /\ \E c \in DiskStates : <<PathA, c>> \in builds[b].diskRead
        /\ builds[b].zipName \in DOMAIN archives
        /\ PathA \in ZipNames(archives[builds[b].zipName])

====
